---- MODULE Spec2Model ----
(***************************************************************************)
(* A model of the APK editor's signing and build core:                     *)
(*   src/utils/apktool.py   APKTool  (sign_apk and its generators)         *)
(*   src/apk_editor.py      APKEditor (sign_apk_advanced, compile_apk)     *)
(*                                                                         *)
(* Text and bytes are sequences of tokens (strings).  "\r\n" is one token, *)
(* a file name is one or more tokens, and a digest is one token that names *)
(* its pre-image, so two digests are equal exactly when the hashed bytes   *)
(* are equal (SHA-1/SHA-256 taken as collision free).  utf-8 encode/decode *)
(* of this text is the same token sequence.                                *)
(***************************************************************************)
EXTENDS Integers, Sequences, FiniteSets, TLC

\* Bounds of the model.
MaxEntries == 3
MaxTime == 1

VARIABLES
    input_apk,      \* the file at input_apk: [kind, entries]
    output_apk,     \* the file at output_apk
    now,            \* the wall clock read by datetime.now() / time.time()
    ret,            \* what the last call returned: "None", "True", "False"
    last_op,        \* the function that produced output_apk / ret
    first_manifest, \* per generator, the MANIFEST.MF content of its first run
    keystore,       \* whether <temp_folder>/debug.keystore exists
    tools,          \* the executables found on PATH
    pc,             \* position inside sign_apk_advanced / compile_apk
    attempts,       \* the signing methods invoked by the running call, in order
    compiled_apk,   \* the file at <project>/compiled.apk
    signed_apk,     \* the file at <project>/signed.apk
    steps,          \* what the steps of the last compile_apk returned
    project,        \* the project directory: whether it exists, what it holds
    blob,           \* the last binary a generator returned, and its input
    signers         \* per caller of a keystore-based method: where it stands

vars == <<input_apk, output_apk, now, ret, last_op, first_manifest, keystore,
          tools, pc, attempts, compiled_apk, signed_apk, steps, project,
          blob, signers>>

-----------------------------------------------------------------------------
\* Strings

CRLF == "\r\n"

\* Tokens that consist of white space only.
Whitespace == {" ", CRLF, ""}

RECURSIVE lstrip(_)
lstrip(s) ==
    IF s # <<>> /\ Head(s) \in Whitespace THEN lstrip(Tail(s)) ELSE s

RECURSIVE rstrip(_)
rstrip(s) ==
    IF s # <<>> /\ s[Len(s)] \in Whitespace
    THEN rstrip(SubSeq(s, 1, Len(s) - 1)) ELSE s

\* str.strip()
strip(s) == rstrip(lstrip(s))

\* str.startswith(prefix), prefix a token sequence
startswith(s, prefix) ==
    /\ Len(s) >= Len(prefix)
    /\ SubSeq(s, 1, Len(prefix)) = prefix

\* sep.join(lines): lines is a sequence of lines, each a token sequence
RECURSIVE join(_, _)
join(sep, lines) ==
    IF lines = <<>> THEN <<>>
    ELSE IF Len(lines) = 1 THEN lines[1]
    ELSE lines[1] \o sep \o join(sep, Tail(lines))

\* The first index at which sep occurs in s, 0 when it does not.
RECURSIVE find(_, _, _)
find(s, sep, i) ==
    IF i + Len(sep) - 1 > Len(s) THEN 0
    ELSE IF SubSeq(s, i, i + Len(sep) - 1) = sep THEN i
    ELSE find(s, sep, i + 1)

\* str.split(sep): left to right, non-overlapping
RECURSIVE split(_, _)
split(s, sep) ==
    LET i == find(s, sep, 1) IN
    IF i = 0 THEN <<s>>
    ELSE <<SubSeq(s, 1, i - 1)>> \o split(SubSeq(s, i + Len(sep), Len(s)), sep)

\* The code point of a token's first character; tokens have distinct first
\* characters, so token-wise comparison is Python's string comparison.
CodePoint(tok) ==
    CASE tok = " " -> 32
      [] tok = "/" -> 47
      [] tok = "AndroidManifest.xml" -> 65
      [] tok = "META-INF/" -> 77
      [] tok = "OLD.SF" -> 79
      [] tok = "a.txt" -> 97
      [] tok = "b.txt" -> 98
      [] tok = "c.bin" -> 99
      [] tok = "d.bin" -> 100
      [] tok = "res" -> 114
      [] OTHER -> 127

\* a < b for str
RECURSIVE str_lt(_, _)
str_lt(a, b) ==
    IF b = <<>> THEN FALSE
    ELSE IF a = <<>> THEN TRUE
    ELSE IF Head(a) = Head(b) THEN str_lt(Tail(a), Tail(b))
    ELSE CodePoint(Head(a)) < CodePoint(Head(b))

\* datetime.now().isoformat() / the clock as text
isoformat(t) == ToString(t)

\* hashlib.sha1(data).digest() then base64.b64encode(..).decode('ascii')
sha1(data) == "sha1" \o ToString(data)

sha256(data) == "sha256" \o ToString(data)

b64encode(digest) == "b64:" \o digest

-----------------------------------------------------------------------------
\* Archives

META_INF == <<"META-INF/">>

MANIFEST_MF == <<"META-INF/", "MANIFEST.MF">>

CERT_SF == <<"META-INF/", "CERT.SF">>

CERT_RSA == <<"META-INF/", "CERT.RSA">>

ZIP_STORED == "stored"

ZIP_DEFLATED == "deflated"

\* ZipInfo.is_dir(): the name ends with a slash
is_dir(item) ==
    /\ item.filename # <<>>
    /\ item.filename[Len(item.filename)] \in {"/", "META-INF/"}

\* APKTool._create_binary_manifest_default: 2048 bytes, mostly zero
BINARY_MANIFEST == <<"binary manifest">>

\* APKTool._create_resources_arsc: 8192 bytes, mostly zero
RESOURCES_ARSC == <<"resource table">>

\* APKTool._create_binary_xml: 1024 bytes, the same for every xml_path
BINARY_XML == <<"binary xml">>

\* An image of 60000 bytes that deflate cannot shrink
PNG == <<"png">>

\* zlib level 6 on the data: the stream length measured for the generated
\* blobs (the DEX stub at its minimum file size), the data plus the stream
\* framing for the short texts.
deflate(data) ==
    CASE data = BINARY_MANIFEST -> 109
      [] data = RESOURCES_ARSC -> 129
      [] data = BINARY_XML -> 407
      [] data = PNG -> 60020
      [] Len(data) > 0 /\ data[1] = "dex" -> 4562
      [] OTHER -> Len(data) + 2

\* The size zipfile gives the data of an entry it writes: the data itself
\* when stored, the zlib level-6 stream when deflated.
compressed_size(data, comp) ==
    IF comp = ZIP_STORED THEN Len(data) ELSE deflate(data)

\* An entry as it lies in a file: its name, its data, how it is compressed,
\* whether zipfile can decode it, and the size of its compressed data.
Entry(name, data, comp, readable, csize) ==
    [filename |-> name, data |-> data, compress_type |-> comp,
     readable |-> readable, compress_size |-> csize]

\* The entries an input archive is drawn from.  c.bin is an entry zipfile
\* cannot decode (bad CRC, unsupported method): ZipFile.read raises on it.
\* d.bin was deflated by another tool, to a size zlib level 6 does not give.
EntryPool ==
    { Entry(<<"a.txt">>, <<"x">>, ZIP_STORED, TRUE, 1),
      Entry(<<"b.txt">>, <<"y">>, ZIP_DEFLATED, TRUE, 3),
      Entry(<<"META-INF/", "OLD.SF">>, <<"old">>, ZIP_DEFLATED, TRUE, 3),
      Entry(<<"res", "/">>, <<>>, ZIP_STORED, TRUE, 0),
      Entry(<<" ">>, <<"z">>, ZIP_STORED, TRUE, 1),
      Entry(<<"c.bin">>, <<"?">>, ZIP_DEFLATED, FALSE, 3),
      Entry(<<"d.bin">>, <<"w">>, ZIP_DEFLATED, TRUE, 2) }

\* Entry lists of at most n entries with unique names, in every order.
RECURSIVE Arrangements(_, _)
Arrangements(S, n) ==
    IF n = 0 THEN {<<>>}
    ELSE {<<>>} \cup
         UNION { { <<e>> \o t : t \in Arrangements(S \ {e}, n - 1) } : e \in S }

NoFile == [kind |-> "missing", entries |-> <<>>]

NotZip == [kind |-> "notzip", entries |-> <<>>]

Zip(entries) == [kind |-> "zip", entries |-> entries]

InputFiles ==
    {NoFile, NotZip} \cup { Zip(a) : a \in Arrangements(EntryPool, MaxEntries) }

\* ZipFile.namelist()
namelist(file) == [i \in 1..Len(file.entries) |-> file.entries[i].filename]

Names(file) == { file.entries[i].filename : i \in 1..Len(file.entries) }

\* zipfile.ZipFile(path, 'r') succeeds
opens(file) == file.kind = "zip"

\* The size of an entry's local record: the fixed header, the name, the data
record_size(e) == 30 + Len(e.filename) + e.compress_size

\* The offset at which the local record after entries 1..n starts
RECURSIVE end_offset(_, _)
end_offset(entries, n) ==
    IF n = 0 THEN 0 ELSE end_offset(entries, n - 1) + record_size(entries[n])

\* zipfile.ZipFile(path, 'r'): the open file and its ZipInfo list, read from
\* the central directory
ZipFile(file) ==
    [fp |-> file,
     infolist |-> [i \in 1..Len(file.entries) |->
         [filename |-> file.entries[i].filename,
          compress_type |-> file.entries[i].compress_type,
          header_offset |-> end_offset(file.entries, i - 1),
          compress_size |-> file.entries[i].compress_size]]]

\* ZipFile.read(name) through the ZipInfo item of that name: the local header
\* at item.header_offset must be the one of that name, and the compressed
\* data, item.compress_size long, must decode; otherwise it raises.
zip_read(zip_file, item) ==
    LET entries == zip_file.fp.entries
        at == { k \in 1..Len(entries) :
                  /\ end_offset(entries, k - 1) = item.header_offset
                  /\ entries[k].filename = item.filename
                  /\ entries[k].compress_size = item.compress_size
                  /\ entries[k].readable }
    IN  IF at = {} THEN [ok |-> FALSE, data |-> <<>>]
        ELSE [ok |-> TRUE, data |-> entries[CHOOSE k \in at : TRUE].data]

\* ZipFile.writestr(zinfo, data): the entry keeps zinfo's name and compress_type
writestr_info(item, data) ==
    Entry(item.filename, data, item.compress_type, TRUE,
          compressed_size(data, item.compress_type))

\* ZipFile.writestr(name, data): the entry takes the archive's compression
writestr_name(name, data) ==
    Entry(name, data, ZIP_DEFLATED, TRUE, compressed_size(data, ZIP_DEFLATED))

-----------------------------------------------------------------------------
\* list.sort(key=lambda x: x[0]): a stable sort of records by their filename

RECURSIVE insert_by_name(_, _)
insert_by_name(sorted, x) ==
    IF sorted = <<>> THEN <<x>>
    ELSE IF str_lt(x.filename, Head(sorted).filename) THEN <<x>> \o sorted
    ELSE <<Head(sorted)>> \o insert_by_name(Tail(sorted), x)

RECURSIVE sort_by_name(_)
sort_by_name(xs) ==
    IF xs = <<>> THEN <<>>
    ELSE insert_by_name(sort_by_name(SubSeq(xs, 1, Len(xs) - 1)), xs[Len(xs)])

\* list.extend over a sequence of line groups
RECURSIVE extend_all(_)
extend_all(groups) ==
    IF groups = <<>> THEN <<>> ELSE Head(groups) \o extend_all(Tail(groups))

-----------------------------------------------------------------------------
\* APKTool (src/utils/apktool.py): the enhanced generators

\* The items of infolist() the enhanced manifest digests, in archive order;
\* an item whose read raises is skipped by the except clause.
enhanced_items(zip_file) ==
    SelectSeq(zip_file.infolist,
              LAMBDA item : /\ ~startswith(item.filename, META_INF)
                            /\ ~is_dir(item)
                            /\ zip_read(zip_file, item).ok)

enhanced_section(zip_file, item) ==
    LET data == zip_read(zip_file, item).data IN
    << <<"Name: ">> \o item.filename,
       <<"SHA1-Digest: ", b64encode(sha1(data))>>,
       <<"SHA-256-Digest: ", b64encode(sha256(data))>>,
       <<>> >>

_create_enhanced_manifest_mf(zip_file, t) ==
    LET header == << <<"Manifest-Version: 1.0">>,
                     <<"Built-By: APK Editor Pro">>,
                     <<"Created-By: APK Editor Enhanced System">>,
                     <<"Build-Date: ", isoformat(t)>>,
                     <<>> >>
        items == enhanced_items(zip_file)
        manifest_lines ==
            header \o extend_all([i \in 1..Len(items) |->
                                      enhanced_section(zip_file, items[i])])
    IN  join(<<CRLF>>, manifest_lines)

\* The first line of a section that starts with 'Name: ', <<>> when none does.
RECURSIVE name_line(_)
name_line(lines) ==
    IF lines = <<>> THEN <<>>
    ELSE IF startswith(Head(lines), <<"Name: ">>) THEN Head(lines)
    ELSE name_line(Tail(lines))

\* The same with the file name cut from the Name: line one character early
enhanced_sf_section_early_cut(section) ==
    LET section_data == section \o <<CRLF, CRLF>>
        section_b64 == b64encode(sha1(section_data))
        line == name_line(split(section, <<CRLF>>))
    IN  IF strip(section) = <<>> \/ line = <<>> THEN <<>>
        ELSE << <<"Name: ", " ">> \o Tail(line),
                <<"SHA1-Digest: ", section_b64>>,
                <<>> >>

\* The CERT.SF lines of one manifest section, as the enhanced generator
\* computes them: the digest is taken over section + '\r\n\r\n'.
enhanced_sf_section(section) ==
    LET section_data == section \o <<CRLF, CRLF>>
        section_b64 == b64encode(sha1(section_data))
        line == name_line(split(section, <<CRLF>>))
    IN  IF strip(section) = <<>> \/ line = <<>> THEN <<>>
        ELSE << <<"Name: ">> \o Tail(line),
                <<"SHA1-Digest: ", section_b64>>,
                <<>> >>

\* A whole-manifest digest taken over the manifest without its last CRLF.
enhanced_manifest_b64_stripped(manifest_content) ==
    b64encode(sha1(rstrip(manifest_content)))

\* The whole-manifest digest of the enhanced CERT.SF
enhanced_manifest_b64(manifest_content) == b64encode(sha1(manifest_content))

_create_enhanced_cert_sf(manifest_content, t) ==
    LET manifest_b64 == enhanced_manifest_b64(manifest_content)
        manifest_text == manifest_content
        sections == split(manifest_text, <<CRLF, CRLF>>)
        main_attrs == sections[1] \o <<CRLF>>
        main_attrs_b64 == b64encode(sha1(main_attrs))
        header == << <<"Signature-Version: 1.0">>,
                     <<"SHA1-Digest-Manifest: ", manifest_b64>>,
                     <<"SHA1-Digest-Manifest-Main-Attributes: ", main_attrs_b64>>,
                     <<"Created-By: APK Editor Enhanced">>,
                     <<"Signature-Date: ", isoformat(t)>>,
                     <<>> >>
        rest == Tail(sections)
        sf_lines ==
            header \o extend_all([i \in 1..Len(rest) |-> enhanced_sf_section(rest[i])])
    IN  join(<<CRLF>>, sf_lines)

\* The fabricated signature block; only its dependence on the clock is kept.
_create_enhanced_cert_rsa(t) == <<"PKCS7 enhanced", isoformat(t)>>

\* A copy filter that leaves out the old manifest only.
copy_skips_manifest_only(item) == startswith(item.filename, MANIFEST_MF)

\* The items the copy loop leaves out: item.filename.startswith('META-INF/')
copy_skips(item) == startswith(item.filename, META_INF)

\* The copy loop of both signing functions, from item i on: every item
\* outside META-INF/ is read and written with writestr(item, data); a read
\* that raises ends the loop with the entries written so far.  writestr is
\* handed the input's own ZipInfo object and stores in it the place and the
\* compressed size of the entry in the OUTPUT archive, so the input's
\* infolist comes out of the loop changed.
RECURSIVE copy_loop(_, _, _)
copy_loop(zip_file, i, out) ==
    IF i > Len(zip_file.infolist)
    THEN [done |-> TRUE, out |-> out, input_zip |-> zip_file]
    ELSE LET item == zip_file.infolist[i] IN
         IF copy_skips(item) THEN copy_loop(zip_file, i + 1, out)
         ELSE LET r == zip_read(zip_file, item)
                  w == writestr_info(item, r.data)
                  written == [item EXCEPT !.header_offset = end_offset(out, Len(out)),
                                          !.compress_size = w.compress_size]
              IN  IF ~r.ok THEN [done |-> FALSE, out |-> out, input_zip |-> zip_file]
                  ELSE copy_loop([zip_file EXCEPT !.infolist[i] = written],
                                 i + 1, Append(out, w))

copy_entries(zip_file) == copy_loop(zip_file, 1, <<>>)

\* APKTool._create_realistic_signed_apk: what it returns and the file it
\* leaves at output_apk (out_file is the file that was there before).
_create_realistic_signed_apk(in_file, out_file, t) ==
    IF in_file.kind = "missing" THEN [ret |-> FALSE, output |-> out_file]
    ELSE IF ~opens(in_file) THEN [ret |-> FALSE, output |-> out_file]
    ELSE LET copied == copy_entries(ZipFile(in_file))
             manifest_content == _create_enhanced_manifest_mf(copied.input_zip, t)
             cert_sf_content == _create_enhanced_cert_sf(manifest_content, t)
             cert_rsa_content == _create_enhanced_cert_rsa(t)
         IN  IF ~copied.done THEN [ret |-> FALSE, output |-> Zip(copied.out)]
             ELSE [ret |-> TRUE,
                   output |-> Zip(copied.out \o
                       << writestr_name(MANIFEST_MF, manifest_content),
                          writestr_name(CERT_SF, cert_sf_content),
                          writestr_name(CERT_RSA, cert_rsa_content) >>)]

\* APKTool.sign_apk
sign_apk(in_file, out_file, t) == _create_realistic_signed_apk(in_file, out_file, t)

-----------------------------------------------------------------------------
\* APKEditor (src/apk_editor.py): the advanced generators

\* file_entries before the sort: (filename, sha1_b64) of every item that is
\* outside META-INF/, is no directory and has a non-blank name.
advanced_items(zip_file) ==
    SelectSeq(zip_file.infolist,
              LAMBDA item : /\ ~startswith(item.filename, META_INF)
                            /\ ~is_dir(item)
                            /\ strip(item.filename) # <<>>
                            /\ zip_read(zip_file, item).ok)

advanced_section(entry) ==
    << <<"Name: ">> \o entry.filename,
       <<"SHA1-Digest: ", entry.digest>>,
       <<>> >>

_create_manifest_mf_advanced(zip_file) ==
    LET header == << <<"Manifest-Version: 1.0">>,
                     <<"Built-By: APK Editor">>,
                     <<"Created-By: Android Gradle">>,
                     <<>> >>
        items == advanced_items(zip_file)
        file_entries ==
            sort_by_name([i \in 1..Len(items) |->
                [filename |-> items[i].filename,
                 digest |-> b64encode(sha1(zip_read(zip_file, items[i]).data))]])
        manifest_lines ==
            header \o extend_all([i \in 1..Len(file_entries) |->
                                      advanced_section(file_entries[i])])
    IN  join(<<CRLF>>, manifest_lines)

\* (filename, section_b64) of one manifest section, as the advanced generator
\* computes it: the digest is taken over section + '\r\n'.
advanced_sf_entry(section) ==
    LET section_normalized == section \o <<CRLF>>
        section_b64 == b64encode(sha1(section_normalized))
        line == name_line(split(section, <<CRLF>>))
    IN  IF strip(section) = <<>> \/ line = <<>> THEN <<>>
        ELSE << [filename |-> Tail(line), digest |-> section_b64] >>

\* The whole-manifest digest of the advanced CERT.SF
advanced_manifest_b64(manifest_content) == b64encode(sha1(manifest_content))

_create_cert_sf_advanced(manifest_content) ==
    LET manifest_b64 == advanced_manifest_b64(manifest_content)
        manifest_text == manifest_content
        sections == split(manifest_text, <<CRLF, CRLF>>)
        main_section == sections[1] \o <<CRLF>>
        main_b64 == b64encode(sha1(main_section))
        header == << <<"Signature-Version: 1.0">>,
                     <<"SHA1-Digest-Manifest: ", manifest_b64>>,
                     <<"SHA1-Digest-Manifest-Main-Attributes: ", main_b64>>,
                     <<"Created-By: Android Gradle">>,
                     <<>> >>
        rest == Tail(sections)
        section_entries ==
            sort_by_name(extend_all([i \in 1..Len(rest) |-> advanced_sf_entry(rest[i])]))
        sf_lines ==
            header \o extend_all([i \in 1..Len(section_entries) |->
                                      advanced_section(section_entries[i])])
    IN  join(<<CRLF>>, sf_lines)

\* The fabricated signature block; only its dependence on the clock is kept.
_create_cert_rsa_advanced(t) == <<"PKCS7 advanced", isoformat(t)>>

\* APKEditor._create_signed_apk (the manual method)
_create_signed_apk(in_file, out_file, t) ==
    IF ~opens(in_file) THEN [ret |-> FALSE, output |-> out_file]
    ELSE LET copied == copy_entries(ZipFile(in_file))
             manifest_content == _create_manifest_mf_advanced(copied.input_zip)
             cert_sf_content == _create_cert_sf_advanced(manifest_content)
             cert_rsa_content == _create_cert_rsa_advanced(t)
         IN  IF ~copied.done THEN [ret |-> FALSE, output |-> Zip(copied.out)]
             ELSE [ret |-> TRUE,
                   output |-> Zip(copied.out \o
                       << writestr_name(MANIFEST_MF, manifest_content),
                          writestr_name(CERT_SF, cert_sf_content),
                          writestr_name(CERT_RSA, cert_rsa_content) >>)]

-----------------------------------------------------------------------------
\* The signing functions applied to an input archive

signVars == <<input_apk, output_apk, now, ret, last_op, first_manifest>>

chainVars == <<keystore, tools, pc, attempts>>

compileVars == <<compiled_apk, signed_apk, steps, project, blob, signers>>

Bool(b) == IF b THEN "True" ELSE "False"

\* ZipFile.read(name): the data of the entry called name
read(file, name) ==
    LET i == CHOOSE i \in 1..Len(file.entries) : file.entries[i].filename = name
    IN  file.entries[i].data

NoManifest == <<>>

\* The callers that may run a keystore-based signing method at the same time
Callers == {1, 2}

\* No caller is inside a signing method
NoSigners ==
    [p \in Callers |-> [pc |-> "idle", method |-> "none", found |-> FALSE,
                        created |-> FALSE, commands |-> <<>>]]

\* No binary generator has been called
NoBlob == [of |-> "none"]

\* A project directory that does not exist.  A directory that exists holds
\* the decompiled tree (what populated it, the original_size its apktool.yml
\* records, the files under res), metadata.json (<<>> when there is none)
\* and original.apk; assets and lib are the files under decompiled/assets
\* and decompiled/lib.
NoProject ==
    [exists |-> FALSE, original_size |-> 0, resources |-> <<>>,
     assets |-> <<>>, lib |-> <<>>,
     decompiled |-> "none", metadata |-> <<>>,
     original_apk |-> NoFile]

\* The metadata.json decompile_apk writes (the fields the model reads)
Metadata(t) == [status |-> "decompiled", created_at |-> isoformat(t)]

Generator(op) == IF op = "sign_apk" THEN "enhanced" ELSE "advanced"

Record(r, op) ==
    /\ output_apk' = r.output
    /\ ret' = Bool(r.ret)
    /\ last_op' = op
    /\ first_manifest' =
          IF r.ret /\ first_manifest[Generator(op)] = NoManifest
          THEN [first_manifest EXCEPT
                   ![Generator(op)] = read(r.output, MANIFEST_MF)]
          ELSE first_manifest

\* the clock advances
Tick ==
    /\ now < MaxTime
    /\ now' = now + 1
    /\ UNCHANGED <<input_apk, output_apk, ret, last_op, first_manifest>>
    /\ UNCHANGED <<chainVars, compileVars>>

\* APKTool.sign_apk(input_apk, output_apk)
CallSignApk ==
    /\ Record(sign_apk(input_apk, output_apk, now), "sign_apk")
    /\ UNCHANGED <<input_apk, now, chainVars, compileVars>>

\* APKEditor._create_signed_apk(input_apk, output_apk)
CallCreateSignedApk ==
    /\ Record(_create_signed_apk(input_apk, output_apk, now), "_create_signed_apk")
    /\ UNCHANGED <<input_apk, now, chainVars, compileVars>>

IdleChain ==
    /\ keystore = FALSE
    /\ tools = {}
    /\ pc = "idle"
    /\ attempts = <<>>

IdleCompile ==
    /\ compiled_apk = NoFile
    /\ signed_apk = NoFile
    /\ steps = <<>>
    /\ project = NoProject
    /\ blob = NoBlob
    /\ signers = NoSigners

InitSign ==
    /\ input_apk \in InputFiles
    /\ output_apk = NoFile
    /\ now = 0
    /\ ret = "None"
    /\ last_op = "none"
    /\ first_manifest = [enhanced |-> NoManifest, advanced |-> NoManifest]
    /\ IdleChain
    /\ IdleCompile

NextSign == Tick \/ CallSignApk \/ CallCreateSignedApk

SpecSign == InitSign /\ [][NextSign]_vars

-----------------------------------------------------------------------------
\* APKEditor.sign_apk_advanced: the external signers and the fallback chain

MaxChainEntries == 2

ANDROIDD_SF == <<"META-INF/", "ANDROIDD.SF">>

ANDROIDD_RSA == <<"META-INF/", "ANDROIDD.RSA">>

Executables == {"keytool", "jarsigner", "apksigner"}

\* How a subprocess.run of an external tool can end: exit status 0, another
\* exit status, TimeoutExpired, or FileNotFoundError when it is not on PATH.
Outcomes(tool) ==
    IF tool \in tools THEN {"exit 0", "exit 1", "timeout"} ELSE {"not found"}

\* APKEditor._create_debug_keystore: whether the keystore file exists after
\* the call; keytool creates it only when it exits with status 0.
_create_debug_keystore(outcome) == outcome = "exit 0"

\* The check-then-create at the head of both external methods
ensure_keystore(exists, outcome) ==
    IF ~exists THEN _create_debug_keystore(outcome) ELSE exists

\* What jarsigner / apksigner leave in the archive they sign with the debug
\* key: the entries, a regenerated manifest and the signer's own files.
external_signed(file, tool) ==
    LET theirs == {MANIFEST_MF, ANDROIDD_SF, ANDROIDD_RSA}
        others == SelectSeq(file.entries, LAMBDA e : e.filename \notin theirs)
    IN  Zip(others \o
            << writestr_name(MANIFEST_MF, <<tool, "manifest">>),
               writestr_name(ANDROIDD_SF, <<tool, "signature file">>),
               writestr_name(ANDROIDD_RSA, <<tool, "signature block">>) >>)

\* A signer exits with status 0 only when it is given a keystore and an archive.
can_sign(file, ks, outcome) == outcome = "exit 0" /\ ks /\ opens(file)

\* APKEditor._sign_with_jarsigner: jarsigner signs input_apk in place, then
\* the signed file is copied to output_apk.
_sign_with_jarsigner(in_file, out_file, ks, outcome) ==
    IF can_sign(in_file, ks, outcome)
    THEN [ret |-> TRUE,
          input |-> external_signed(in_file, "jarsigner"),
          output |-> external_signed(in_file, "jarsigner")]
    ELSE [ret |-> FALSE, input |-> in_file, output |-> out_file]

\* APKEditor._sign_with_apksigner: apksigner writes output_apk itself.
_sign_with_apksigner(in_file, out_file, ks, outcome) ==
    IF can_sign(in_file, ks, outcome)
    THEN [ret |-> TRUE,
          input |-> in_file,
          output |-> external_signed(in_file, "apksigner")]
    ELSE [ret |-> FALSE, input |-> in_file, output |-> out_file]

\* A chain that gives up when apksigner fails.
after_method_no_fallback(method, result) ==
    IF result \/ method # "jarsigner" THEN "return" ELSE "apksigner"

\* A chain that goes on to the next method after a success.
after_method_fallthrough(method, result) ==
    CASE method = "jarsigner" -> "apksigner"
      [] method = "apksigner" -> "manual"
      [] OTHER -> "return"

\* APKEditor._sign_apk_advanced: where the chain goes after a method: it
\* returns True at the first success and returns the manual method's result.
after_method(method, result) ==
    IF result THEN "return"
    ELSE CASE method = "jarsigner" -> "apksigner"
           [] method = "apksigner" -> "manual"
           [] OTHER -> "return"

\* One method of the chain has run with result r.
Attempted(method, r) ==
    /\ input_apk' = r.input
    /\ output_apk' = r.output
    /\ attempts' = Append(attempts, [method |-> method, ret |-> r.ret])
    /\ pc' = IF after_method(method, r.ret) = "return"
             THEN "idle" ELSE after_method(method, r.ret)
    /\ ret' = IF after_method(method, r.ret) = "return"
              THEN Bool(r.ret) ELSE "None"

\* sign_apk_advanced(input_apk, output_apk) is called
CallSignApkAdvanced ==
    /\ pc = "idle"
    /\ pc' = "jarsigner"
    /\ attempts' = <<>>
    /\ ret' = "None"
    /\ last_op' = "sign_apk_advanced"
    /\ UNCHANGED <<input_apk, output_apk, now, first_manifest, keystore, tools>>
    /\ UNCHANGED compileVars

\* Method 1
SignWithJarsigner ==
    /\ pc = "jarsigner"
    /\ \E k \in Outcomes("keytool"), o \in Outcomes("jarsigner") :
          /\ keystore' = ensure_keystore(keystore, k)
          /\ Attempted("jarsigner",
                       _sign_with_jarsigner(input_apk, output_apk, keystore', o))
    /\ UNCHANGED <<now, last_op, first_manifest, tools, compileVars>>

\* Method 2
SignWithApksigner ==
    /\ pc = "apksigner"
    /\ \E k \in Outcomes("keytool"), o \in Outcomes("apksigner") :
          /\ keystore' = ensure_keystore(keystore, k)
          /\ Attempted("apksigner",
                       _sign_with_apksigner(input_apk, output_apk, keystore', o))
    /\ UNCHANGED <<now, last_op, first_manifest, tools, compileVars>>

\* Method 3
CreateSignedApk ==
    /\ pc = "manual"
    /\ LET r == _create_signed_apk(input_apk, output_apk, now) IN
          Attempted("manual", [ret |-> r.ret, input |-> input_apk, output |-> r.output])
    /\ UNCHANGED <<now, last_op, first_manifest, keystore, tools, compileVars>>

ChainInputs ==
    {NoFile, NotZip} \cup { Zip(a) : a \in Arrangements(EntryPool, MaxChainEntries) }

InitAdvanced ==
    /\ input_apk \in ChainInputs
    /\ output_apk = NoFile
    /\ now \in 0..MaxTime
    /\ ret = "None"
    /\ last_op = "none"
    /\ first_manifest = [enhanced |-> NoManifest, advanced |-> NoManifest]
    /\ keystore \in BOOLEAN
    /\ tools \in SUBSET Executables
    /\ pc = "idle"
    /\ attempts = <<>>
    /\ IdleCompile

NextAdvanced ==
    CallSignApkAdvanced \/ SignWithJarsigner \/ SignWithApksigner \/ CreateSignedApk

SpecAdvanced == InitAdvanced /\ [][NextAdvanced]_vars

-----------------------------------------------------------------------------
\* APKEditor.compile_apk and the APKTool.compile it drives

ANDROID_MANIFEST == <<"AndroidManifest.xml">>

CLASSES_DEX == <<"classes.dex">>

RESOURCES_ARSC_NAME == <<"resources.arsc">>

BuildTools == {"apktool", "java"}

max(a, b) == IF a >= b THEN a ELSE b

\* A project directory: the original_size recorded in decompiled/apktool.yml
\* (0 when there is none) and the files under decompiled/res
Project(original_size, resources) ==
    [NoProject EXCEPT !.exists = TRUE, !.original_size = original_size,
                      !.resources = resources, !.decompiled = "extracted",
                      !.metadata = <<Metadata(0)>>,
                      !.original_apk = Zip(<<>>)]

\* A file of the decompiled tree: open() raises on one that is not readable
ResourceFile(name, data, size) ==
    [filename |-> name, data |-> data, size |-> size, readable |-> TRUE]

Unreadable(file) == [file EXCEPT !.readable = FALSE]

BIG_PNG == ResourceFile(<<"res", "/", "big.png">>, PNG, 60000)

ICON_PNG == ResourceFile(<<"res", "/", "icon.png">>, PNG, 60000)

\* The texts a res/values/strings.xml holds
XmlContents == {<<"sample strings">>, <<"edited strings">>}

StringsXml(content) ==
    ResourceFile(<<"res", "/", "values/strings.xml">>, content, Len(content))

DATA_BIN == ResourceFile(<<"assets", "/", "data.bin">>, <<"asset">>, 5)

LIBAPP_SO == ResourceFile(<<"lib", "/", "libapp.so">>, <<"elf">>, 3)

\* A project directory that also holds files under assets and lib
Packed(proj, assets, lib) == [proj EXCEPT !.assets = assets, !.lib = lib]

Projects ==
    {NoProject} \cup
    { Project(0, <<>>), Project(600000, <<>>), Project(0, <<BIG_PNG>>),
      Project(0, <<Unreadable(BIG_PNG)>>),
      Project(0, <<BIG_PNG, Unreadable(ICON_PNG)>>),
      Packed(Project(0, <<BIG_PNG>>), <<Unreadable(DATA_BIN)>>, <<LIBAPP_SO>>),
      Packed(Project(0, <<BIG_PNG>>), <<DATA_BIN>>, <<Unreadable(LIBAPP_SO)>>) }
    \cup { Project(0, <<BIG_PNG, StringsXml(c)>>) : c \in XmlContents }

\* os.path.getsize of an archive zipfile has written: the local records, the
\* central directory records and the end record
RECURSIVE central_size(_, _)
central_size(entries, n) ==
    IF n = 0 THEN 0
    ELSE central_size(entries, n - 1) + 46 + Len(entries[n].filename)

getsize(file) ==
    end_offset(file.entries, Len(file.entries))
        + central_size(file.entries, Len(file.entries)) + 22

\* APKTool._estimate_apk_size: 40% of the bytes under the decompiled directory
RECURSIVE total_size(_, _)
total_size(resources, n) ==
    IF n = 0 THEN 0 ELSE total_size(resources, n - 1) + resources[n].size

_estimate_apk_size(proj) ==
    LET files == proj.resources \o proj.assets \o proj.lib
    IN  (total_size(files, Len(files)) * 4) \div 10

\* str.endswith('.xml') on the last part of a file name
is_xml(name) ==
    name[Len(name)] \in {"values/strings.xml", "values/colors.xml", "layout/main.xml"}

\* APKTool._add_resources_to_apk: the entries written for the files under
\* res.  An .xml file is never opened: its entry is the generated binary
\* XML.  Any other file is read and copied; one that cannot be read is
\* skipped with a warning.
_add_resources_to_apk(resources) ==
    LET processed == SelectSeq(resources,
                               LAMBDA f : is_xml(f.filename) \/ f.readable)
    IN  [i \in 1..Len(processed) |->
            writestr_name(processed[i].filename,
                          IF is_xml(processed[i].filename) THEN BINARY_XML
                          ELSE processed[i].data)]

\* The loop of ZipFile.write calls over the files under assets or lib: a
\* file that cannot be read is skipped with a warning
write_files(files) ==
    LET added == SelectSeq(files, LAMBDA f : f.readable)
    IN  [i \in 1..Len(added) |-> writestr_name(added[i].filename, added[i].data)]

\* APKTool._create_realistic_dex: the stub is file_size bytes long
_create_realistic_dex(target_size) ==
    <<"dex", ToString(max(target_size \div 8, 100000))>>

\* APKTool._pad_apk_file: bytes appended after the end record, so what is
\* left is longer and no archive zipfile can open
_pad_apk_file(file, target_size) ==
    IF getsize(file) < target_size THEN NotZip ELSE file

\* APKTool._simulate_compile: what it returns and the file left at output_apk
_simulate_compile(proj, out_file) ==
    IF ~proj.exists THEN [ret |-> FALSE, output |-> out_file]
    ELSE LET original_size ==
                 IF proj.original_size = 0 THEN _estimate_apk_size(proj)
                 ELSE proj.original_size
             apk == Zip(<<writestr_name(ANDROID_MANIFEST, BINARY_MANIFEST)>>
                        \o _add_resources_to_apk(proj.resources)
                        \o write_files(proj.assets)
                        \o <<writestr_name(CLASSES_DEX,
                                           _create_realistic_dex(original_size)),
                             writestr_name(RESOURCES_ARSC_NAME, RESOURCES_ARSC)>>
                        \o write_files(proj.lib))
         IN  [ret |-> TRUE,
              output |-> IF getsize(apk) < 50000
                         THEN _pad_apk_file(apk, max(original_size \div 3, 200000))
                         ELSE apk]

\* What `apktool b` can leave at output_apk when it exits with status 0: an
\* archive with the manifest and the packed files, as apktool compressed them.
ApktoolBuilt ==
    { Zip(<<Entry(ANDROID_MANIFEST, BINARY_MANIFEST, ZIP_DEFLATED, TRUE, 109)>>
          \o a) :
        a \in Arrangements({ e \in EntryPool :
                               e.filename \in {<<"b.txt">>, <<"c.bin">>} }, 1) }

\* APKTool.compile: the external build when apktool and java were found,
\* the simulation when they were not or when the build did not exit with 0.
\* apktool exits with 0 only when it was given a directory to build.
compile(proj, out_file, outcome, built) ==
    IF ~(BuildTools \subseteq tools) THEN _simulate_compile(proj, out_file)
    ELSE IF outcome = "exit 0" /\ proj.exists THEN [ret |-> TRUE, output |-> built]
    ELSE _simulate_compile(proj, out_file)

\* str.endswith on the last part of a file name
endswith(name, suffix) ==
    /\ name # <<>>
    /\ CASE suffix = ".SF" ->
              name[Len(name)] \in {"CERT.SF", "OLD.SF", "ANDROIDD.SF"}
         [] suffix = ".RSA" -> name[Len(name)] \in {"CERT.RSA", "ANDROIDD.RSA"}
         [] OTHER -> FALSE

\* APKEditor._validate_apk_structure
_validate_apk_structure(file) ==
    opens(file) /\ ANDROID_MANIFEST \in Names(file)

\* APKEditor._validate_signed_apk
_validate_signed_apk(file) ==
    /\ opens(file)
    /\ LET filenames == Names(file)
           has_manifest == MANIFEST_MF \in filenames
           has_cert_sf == \E f \in filenames :
                             startswith(f, META_INF) /\ endswith(f, ".SF")
           has_cert_rsa == \E f \in filenames :
                              /\ startswith(f, META_INF)
                              /\ (endswith(f, ".RSA") \/ endswith(f, ".DSA"))
       IN  has_manifest /\ has_cert_sf /\ has_cert_rsa

Step(name, ok) == [step |-> name, ok |-> ok]

\* APKEditor.compile_apk: what it returns, the files it leaves at
\* compiled.apk and signed.apk, and what each step it ran returned
compile_apk(proj, compiled_file, signed_file, outcome, built, t) ==
    LET c == compile(proj, compiled_file, outcome, built)
        s == sign_apk(c.output, signed_file, t)
        ran1 == <<Step("compile", c.ret)>>
        ran2 == Append(ran1, Step("validate", _validate_apk_structure(c.output)))
        ran3 == Append(ran2, Step("sign", s.ret))
        ran4 == Append(ran3, Step("validate_signed", _validate_signed_apk(s.output)))
    IN  IF ~c.ret
        THEN [ret |-> "None", compiled |-> c.output, signed |-> signed_file,
              steps |-> ran1]
        ELSE IF ~_validate_apk_structure(c.output)
        THEN [ret |-> "None", compiled |-> c.output, signed |-> signed_file,
              steps |-> ran2]
        ELSE IF ~s.ret
        THEN [ret |-> "compiled.apk", compiled |-> c.output, signed |-> s.output,
              steps |-> ran3]
        ELSE IF _validate_signed_apk(s.output)
        THEN [ret |-> "signed.apk", compiled |-> c.output, signed |-> s.output,
              steps |-> ran4]
        ELSE [ret |-> "compiled.apk", compiled |-> c.output, signed |-> s.output,
              steps |-> ran4]

\* What a subprocess.run of an external build tool did, when one was run
Ran(cmd, outcome) ==
    IF BuildTools \subseteq tools
    THEN <<Step(cmd \o ": " \o outcome, outcome = "exit 0")>> ELSE <<>>

\* compile_apk(project_id) runs to its return; the signing step invokes no
\* external signer
CallCompileApk ==
    /\ pc = "idle"
    /\ \E outcome \in Outcomes("apktool"), built \in ApktoolBuilt :
       \E r \in {compile_apk(project, compiled_apk, signed_apk, outcome, built, now)} :
              /\ ret' = r.ret
              /\ compiled_apk' = r.compiled
              /\ signed_apk' = r.signed
              /\ steps' = Ran("apktool b", outcome) \o r.steps
    /\ attempts' = <<>>
    /\ last_op' = "compile_apk"
    /\ UNCHANGED <<input_apk, output_apk, now, first_manifest, keystore, tools,
                   pc, project, blob, signers>>

CompileInputs ==
    {NoFile} \cup { Zip(<<e>>) : e \in { x \in EntryPool : x.filename = <<"a.txt">> } }

InitCompile ==
    /\ input_apk \in CompileInputs
    /\ output_apk = NoFile
    /\ now = 0
    /\ ret = "None"
    /\ last_op = "none"
    /\ first_manifest = [enhanced |-> NoManifest, advanced |-> NoManifest]
    /\ keystore = FALSE
    /\ tools \in SUBSET (Executables \cup BuildTools)
    /\ pc = "idle"
    /\ attempts = <<>>
    /\ compiled_apk = NoFile
    /\ signed_apk = NoFile
    /\ steps = <<>>
    /\ project \in Projects
    /\ blob = NoBlob
    /\ signers = NoSigners

NextCompile == CallCompileApk \/ NextAdvanced

SpecCompile == InitCompile /\ [][NextCompile]_vars

-----------------------------------------------------------------------------
\* APKEditor.decompile_apk and the APKTool.decompile it drives

\* APKTool._create_sample_resources: the placeholder res/values files
STRINGS_XML == ResourceFile(<<"res", "/", "values/strings.xml">>, <<"sample strings">>, 215)

COLORS_XML == ResourceFile(<<"res", "/", "values/colors.xml">>, <<"sample colors">>, 161)

\* The files under res that ZipFile.extractall leaves in the decompiled tree
extracted_resources(entries) ==
    LET res == SelectSeq(entries, LAMBDA e : e.filename[1] = "res" /\ ~is_dir(e))
    IN  [i \in 1..Len(res) |->
            ResourceFile(res[i].filename, res[i].data, Len(res[i].data))]

\* The entries extractall writes before it meets one it cannot decode
RECURSIVE extracted_before(_, _)
extracted_before(entries, i) ==
    IF i > Len(entries) \/ ~entries[i].readable THEN <<>>
    ELSE <<entries[i]>> \o extracted_before(entries, i + 1)

\* os.path.getsize(apk_path) if os.path.exists(apk_path) else 0
apk_size(apk) == IF apk.kind = "missing" THEN 0 ELSE getsize(apk)

\* APKTool._simulate_decompile: what it returns and the tree it leaves.  The
\* archive is extracted when zipfile can read all of it; when it cannot, the
\* sample resources are written next to whatever was extracted.
_simulate_decompile(apk) ==
    LET all_read == opens(apk) /\ \A i \in 1..Len(apk.entries) : apk.entries[i].readable
        got == IF opens(apk) THEN extracted_before(apk.entries, 1) ELSE <<>>
    IN  [ret |-> TRUE,
         decompiled |-> IF all_read THEN "extracted" ELSE "placeholder",
         resources |-> IF all_read THEN extracted_resources(apk.entries)
                       ELSE extracted_resources(got) \o <<STRINGS_XML, COLORS_XML>>,
         original_size |-> apk_size(apk)]

\* APKTool.decompile: the external decoder when apktool and java were found,
\* the simulation when they were not or when the decoder did not exit with 0.
\* apktool exits with 0 only when it was given an archive it can read; the
\* apktool.yml it writes records no original_size.
decompile(apk, outcome) ==
    IF ~(BuildTools \subseteq tools) THEN _simulate_decompile(apk)
    ELSE IF outcome = "exit 0" /\ opens(apk)
    THEN [ret |-> TRUE, decompiled |-> "apktool",
          resources |-> extracted_resources(apk.entries), original_size |-> 0]
    ELSE _simulate_decompile(apk)

\* APKEditor.decompile_apk: what it returns and the project directory it
\* leaves.  shutil.copy2 of the original raises when apk_path does not exist.
decompile_apk(apk, proj, outcome, t) ==
    LET d == decompile(apk, outcome)
        written == [proj EXCEPT !.exists = TRUE,
                                !.decompiled = d.decompiled,
                                !.resources = d.resources,
                                !.original_size = d.original_size,
                                !.metadata = <<Metadata(t)>>]
    IN  IF ~d.ret THEN [ret |-> FALSE, project |-> NoProject]
        ELSE IF apk.kind = "missing" THEN [ret |-> FALSE, project |-> written]
        ELSE [ret |-> TRUE, project |-> [written EXCEPT !.original_apk = apk]]

\* FileManager.get_project: the metadata, <<>> for None
get_project(proj) == IF proj.exists THEN proj.metadata ELSE <<>>

\* A metadata.json that json.load cannot parse
NOT_JSON == [text |-> "{not json"]

\* json.load(f) returned a dictionary
parses(metadata) == "text" \notin DOMAIN metadata

\* The clock reading a created_at was formatted from; isoformat strings
\* compare as their clock readings do
created_at_key(metadata) ==
    CHOOSE t \in 0..9 : isoformat(t) = metadata.created_at

\* list.sort(key=created_at, reverse=True): a stable sort, newest first
RECURSIVE insert_by_created_at(_, _)
insert_by_created_at(sorted, x) ==
    IF sorted = <<>> THEN <<x>>
    ELSE IF created_at_key(Head(sorted)) < created_at_key(x)
    THEN <<x>> \o sorted
    ELSE <<Head(sorted)>> \o insert_by_created_at(Tail(sorted), x)

RECURSIVE sort_by_created_at(_, _)
sort_by_created_at(projects, n) ==
    IF n = 0 THEN <<>>
    ELSE insert_by_created_at(sort_by_created_at(projects, n - 1), projects[n])

\* FileManager.list_projects over a projects folder: folder is what
\* os.listdir returns, in its order.  Entries that are directories with a
\* metadata.json are loaded one after the other.  One try block holds both
\* the loop and the sort: the first metadata.json that does not parse ends
\* the loop, the sort is not reached, and what was collected is returned.
list_projects(folder) ==
    LET bad == { i \in 1..Len(folder) :
                   /\ folder[i].exists
                   /\ folder[i].metadata # <<>>
                   /\ ~parses(folder[i].metadata[1]) }
        raised_at == IF bad = {} THEN Len(folder) + 1
                     ELSE CHOOSE i \in bad : \A k \in bad : i <= k
        loaded == SelectSeq(SubSeq(folder, 1, raised_at - 1),
                            LAMBDA d : d.exists /\ d.metadata # <<>>)
        projects == [i \in 1..Len(loaded) |-> loaded[i].metadata[1]]
    IN  IF bad = {} THEN sort_by_created_at(projects, Len(projects))
        ELSE projects

\* decompile_apk(apk_path, project_id, project_name) runs to its return
CallDecompileApk ==
    /\ pc = "idle"
    /\ \E outcome \in Outcomes("apktool") :
          LET r == decompile_apk(input_apk, project, outcome, now)
          IN  /\ ret' = Bool(r.ret)
              /\ project' = r.project
              /\ steps' = Ran("apktool d", outcome)
    /\ attempts' = <<>>
    /\ last_op' = "decompile_apk"
    /\ UNCHANGED <<input_apk, output_apk, now, first_manifest, keystore, tools,
                   pc, compiled_apk, signed_apk, blob, signers>>

MaxDecompileEntries == 2

DecompileInputs ==
    {NoFile, NotZip} \cup
    { Zip(a) : a \in Arrangements(EntryPool, MaxDecompileEntries) }

InitDecompile ==
    /\ input_apk \in DecompileInputs
    /\ output_apk = NoFile
    /\ now = 0
    /\ ret = "None"
    /\ last_op = "none"
    /\ first_manifest = [enhanced |-> NoManifest, advanced |-> NoManifest]
    /\ keystore = FALSE
    /\ tools \in SUBSET BuildTools
    /\ pc = "idle"
    /\ attempts = <<>>
    /\ IdleCompile

NextDecompile == CallDecompileApk \/ CallCompileApk

SpecDecompile == InitDecompile /\ [][NextDecompile]_vars

-----------------------------------------------------------------------------
\* Reading a signed archive back, as a verifier of the JAR signing scheme does

Signed == ret = "True" /\ last_op \in {"sign_apk", "_create_signed_apk"}

Lines(text) == split(text, <<CRLF>>)

\* The names of the Name: sections of a manifest or signature file, in order
SectionNames(text) ==
    LET named == SelectSeq(Lines(text), LAMBDA l : startswith(l, <<"Name: ">>))
    IN  [i \in 1..Len(named) |-> Tail(named[i])]

\* The value of the first line  key value
Field(text, key) ==
    LET ls == Lines(text)
        i == CHOOSE i \in 1..Len(ls) : startswith(ls[i], <<key>>)
    IN  ls[i][2]

HasField(text, key) ==
    \E i \in 1..Len(Lines(text)) : startswith(Lines(text)[i], <<key>>)

\* The SHA1-Digest recorded in the section of text called name
SectionDigest(text, name) ==
    LET ls == Lines(text)
        i == CHOOSE i \in 1..Len(ls) : ls[i] = <<"Name: ">> \o name
    IN  ls[i + 1][2]

\* The bytes of the section called name as they stand in the manifest: from
\* its Name: line through the blank line that ends it (or the end of file).
ExactSection(manifest, name) ==
    LET i == find(manifest, <<"Name: ">> \o name \o <<CRLF>>, 1)
        rest == SubSeq(manifest, i, Len(manifest))
        j == find(rest, <<CRLF, CRLF>>, 1)
    IN  IF j = 0 THEN rest ELSE SubSeq(rest, 1, j + 1)

EndsWithBlankLine(section) ==
    /\ Len(section) >= 2
    /\ SubSeq(section, Len(section) - 1, Len(section)) = <<CRLF, CRLF>>

IsSortedByName(names) ==
    \A i \in 1..(Len(names) - 1) : str_lt(names[i], names[i + 1])

\* The input entries the archive writer copies
Kept(file) ==
    SelectSeq(file.entries, LAMBDA e : ~startswith(e.filename, META_INF))

\* The input entries the signing scheme digests
Digestible(file) ==
    SelectSeq(file.entries,
              LAMBDA e : ~startswith(e.filename, META_INF) /\ ~is_dir(e))

Occurrences(file, name) ==
    Cardinality({ i \in 1..Len(file.entries) : file.entries[i].filename = name })

-----------------------------------------------------------------------------
\* C1: the archive written by manual signing (APKTool.sign_apk and
\* APKEditor._create_signed_apk) holds every input entry outside META-INF/
\* once, under the same name and with the same bytes, holds no META-INF/
\* entry of the input, and holds exactly the three new entries
\* META-INF/MANIFEST.MF, META-INF/CERT.SF and META-INF/CERT.RSA.
C1_SignedArchiveEntries ==
    Signed =>
        LET kept == Kept(input_apk) IN
        /\ \A i \in 1..Len(kept) :
              /\ Occurrences(output_apk, kept[i].filename) = 1
              /\ read(output_apk, kept[i].filename) = kept[i].data
        /\ { n \in Names(output_apk) : startswith(n, META_INF) }
              = {MANIFEST_MF, CERT_SF, CERT_RSA}
        /\ \A n \in {MANIFEST_MF, CERT_SF, CERT_RSA} : Occurrences(output_apk, n) = 1
        /\ Len(output_apk.entries) = Len(kept) + 3

C1_Witness ==
    /\ Signed
    /\ last_op = "_create_signed_apk"
    /\ {<<"a.txt">>, <<"b.txt">>, <<"META-INF/", "OLD.SF">>} \subseteq Names(input_apk)
    /\ <<"META-INF/", "OLD.SF">> \notin Names(output_apk)
    /\ read(output_apk, <<"a.txt">>) = <<"x">>

\* C2: the SHA1-Digest-Manifest field of CERT.SF is the base64 SHA-1 digest of
\* the bytes of MANIFEST.MF as written to the archive, for both generators.
C2_ManifestDigestMatches ==
    Signed =>
        Field(read(output_apk, CERT_SF), "SHA1-Digest-Manifest: ")
            = b64encode(sha1(read(output_apk, MANIFEST_MF)))

C2_Witness ==
    /\ Signed
    /\ last_op = "sign_apk"
    /\ Len(SectionNames(read(output_apk, MANIFEST_MF))) = 2
    /\ HasField(read(output_apk, CERT_SF), "SHA1-Digest-Manifest: ")

\* C3: for every per-entry section of MANIFEST.MF, the SHA1-Digest that
\* CERT.SF records for it is the digest of the section's bytes as they stand
\* in MANIFEST.MF, and every section (the last one too) is framed the same
\* way: its lines, each ended by CRLF, then one blank-line CRLF.
C3_SectionDigestsMatch ==
    Signed =>
        LET manifest == read(output_apk, MANIFEST_MF)
            cert_sf == read(output_apk, CERT_SF)
            names == SectionNames(manifest)
        IN  \A i \in 1..Len(names) :
               /\ EndsWithBlankLine(ExactSection(manifest, names[i]))
               /\ SectionDigest(cert_sf, names[i])
                     = b64encode(sha1(ExactSection(manifest, names[i])))

\* C4: the Name: sections of the MANIFEST.MF produced by signing are sorted by
\* entry name, whatever the order in which the archive lists its entries.
C4_SectionsSorted ==
    Signed => IsSortedByName(SectionNames(read(output_apk, MANIFEST_MF)))

\* C5: two signing runs over the same input archive, at any two times, give
\* byte-identical MANIFEST.MF content, for both generators.
C5_ManifestReproducible ==
    Signed =>
        read(output_apk, MANIFEST_MF) = first_manifest[Generator(last_op)]

\* C6: MANIFEST.MF has exactly one Name: section for each input entry that is
\* neither under META-INF/ nor a directory, no section for any other entry,
\* and each section carries the SHA1-Digest of that entry's raw bytes.
C6_OneSectionPerEntry ==
    Signed =>
        LET manifest == read(output_apk, MANIFEST_MF)
            names == SectionNames(manifest)
            digestible == Digestible(input_apk)
        IN  /\ Len(names) = Len(digestible)
            /\ { names[i] : i \in 1..Len(names) }
                  = { digestible[i].filename : i \in 1..Len(digestible) }
            /\ \A i \in 1..Len(digestible) :
                  SectionDigest(manifest, digestible[i].filename)
                      = b64encode(sha1(digestible[i].data))

-----------------------------------------------------------------------------
\* A sign_apk_advanced call has returned
Returned == pc = "idle" /\ last_op = "sign_apk_advanced"

ChainOrder == <<"jarsigner", "apksigner", "manual">>

\* Every entry the copy loop reads can be decoded
Readable(file) ==
    /\ opens(file)
    /\ \A i \in 1..Len(file.entries) :
          startswith(file.entries[i].filename, META_INF) \/ file.entries[i].readable

\* C7: sign_apk_advanced tries jarsigner, then apksigner, then the manual
\* method, in that order, a method only after every earlier one has failed,
\* and none after one has succeeded.
C7_ChainOrder ==
    last_op = "sign_apk_advanced" =>
        /\ Len(attempts) <= 3
        /\ \A i \in 1..Len(attempts) :
              /\ attempts[i].method = ChainOrder[i]
              /\ i < Len(attempts) => ~attempts[i].ret
        /\ pc = "apksigner" => Len(attempts) = 1
        /\ pc = "manual" => Len(attempts) = 2
        /\ (Returned /\ Len(attempts) < 3) => attempts[Len(attempts)].ret

C7_Witness ==
    /\ Returned
    /\ Len(attempts) = 2
    /\ ~attempts[1].ret
    /\ attempts[2] = [method |-> "apksigner", ret |-> TRUE]
    /\ ret = "True"

\* C8: sign_apk_advanced reports failure exactly when all three methods
\* failed, so a failure of jarsigner and/or apksigner alone never fails the
\* call; and with both toolchains unavailable and a readable input archive the
\* manual method runs and the call succeeds with MANIFEST.MF, CERT.SF and
\* CERT.RSA in the output.
C8_FailsOnlyWhenExhausted ==
    Returned =>
        /\ ret \in {"True", "False"}
        /\ ret = "False" <=>
              (Len(attempts) = 3 /\ \A i \in 1..3 : ~attempts[i].ret)
        /\ ({"jarsigner", "apksigner"} \cap tools = {} /\ Readable(input_apk)) =>
              /\ Len(attempts) = 3
              /\ attempts[3] = [method |-> "manual", ret |-> TRUE]
              /\ ret = "True"
              /\ {MANIFEST_MF, CERT_SF, CERT_RSA} \subseteq Names(output_apk)

C8_Witness ==
    /\ Returned
    /\ {"jarsigner", "apksigner"} \cap tools = {}
    /\ Readable(input_apk)
    /\ Len(input_apk.entries) = 2
    /\ ret = "True"
    /\ [method |-> "manual", ret |-> TRUE] = attempts[Len(attempts)]
    /\ {MANIFEST_MF, CERT_SF, CERT_RSA} \subseteq Names(output_apk)

-----------------------------------------------------------------------------
\* The file a signing request wrote carries a fabricated signature block
Fabricated(file) ==
    /\ opens(file)
    /\ CERT_RSA \in Names(file)
    /\ read(file, CERT_RSA)[1] \in {"PKCS7 enhanced", "PKCS7 advanced"}

\* The running request invoked an external signer, which failed
ExternalSignerFailed ==
    \E i \in 1..Len(attempts) :
        attempts[i].method \in {"jarsigner", "apksigner"} /\ ~attempts[i].ret

\* A compile_apk call has returned
Compiled == pc = "idle" /\ last_op = "compile_apk"

StepResult(name) ==
    { steps[i].ok : i \in { j \in 1..Len(steps) : steps[j].step = name } }

\* C9: every signing request, the signing step of compile_apk included,
\* attempts real-key signing with an external signer first; a fabricated
\* signature container is written only by a request whose external signers
\* were invoked and failed (unavailable counts as failed).
C9_RealKeySigningFirst ==
    /\ (Returned /\ ret = "True" /\ Fabricated(output_apk))
          => ExternalSignerFailed
    /\ (Compiled /\ ret = "signed.apk" /\ Fabricated(signed_apk))
          => ExternalSignerFailed

\* C10: compile_apk returns None whenever its compile step or its sign step
\* failed, and returns a path only when compile, structure validation, sign
\* and signed validation all succeeded.
C10_NoPathOnFailure ==
    Compiled =>
        /\ (FALSE \in StepResult("compile") \cup StepResult("sign"))
              => ret = "None"
        /\ ret # "None" =>
              \A name \in {"compile", "validate", "sign", "validate_signed"} :
                  StepResult(name) = {TRUE}

-----------------------------------------------------------------------------
\* A signing function has returned False
SignFailed == ret = "False" /\ last_op \in {"sign_apk", "_create_signed_apk"}

\* The file holds all three signature entries, as a completed signing leaves it
FullyWritten(file) ==
    opens(file) /\ {MANIFEST_MF, CERT_SF, CERT_RSA} \subseteq Names(file)

\* C14: when a sign (or compile) operation returns failure, nothing partial is
\* left at the destination path: the destination does not exist, or holds the
\* complete archive of a successful call.
C14_NoPartialDestination ==
    SignFailed => (output_apk = NoFile \/ FullyWritten(output_apk))

\* C19: every entry of the archive written by signing, the copied entries and
\* the new META-INF/ entries alike, is compressed with the one configured
\* method (deflate); a copied entry never keeps the method it had in the
\* source archive.
C19_UniformCompression ==
    Signed =>
        \A i \in 1..Len(output_apk.entries) :
            output_apk.entries[i].compress_type = ZIP_DEFLATED

-----------------------------------------------------------------------------
\* A decompile_apk call has returned
Decompiled == pc = "idle" /\ last_op = "decompile_apk"

\* The running call ran the external tool and it exceeded its timeout
TimedOut(cmd) == \E i \in 1..Len(steps) : steps[i].step = cmd \o ": timeout"

\* C11: a decompile call whose input does not exist or is not a readable ZIP
\* archive returns failure, and never returns success with a project built
\* from synthesized placeholder resources.
C11_UnreadableInputFails ==
    Decompiled =>
        /\ ~opens(input_apk) => ret = "False"
        /\ ret = "True" => project.decompiled # "placeholder"

\* C12: whenever decompile_apk returns False no directory for the project id
\* remains, so get_project returns None and list_projects does not list it.
C12_FailureLeavesNoProject ==
    (Decompiled /\ ret = "False") =>
        /\ ~project.exists
        /\ get_project(project) = <<>>
        /\ list_projects(<<project>>) = <<>>

\* C13: when the external decompiler or compiler exceeds its timeout, the
\* decompile call returns False and the compile step of compile_apk fails.
C13_TimeoutFails ==
    /\ (Decompiled /\ TimedOut("apktool d")) => ret = "False"
    /\ (Compiled /\ TimedOut("apktool b")) => StepResult("compile") = {FALSE}


\* ---------------------------------------------------------------------------
\* Binary generators.  A buffer is a sequence of bytes (0..255).  A Python
\* integer that may not fit 32 bits is kept as two limbs: the value is
\* hi * 65536 + lo with lo in 0..65535 (hi is negative for a negative value).
\* ---------------------------------------------------------------------------
Big(hi, lo) == [hi |-> hi, lo |-> lo]

FromInt(n) == Big(n \div 65536, n % 65536)

\* v // 8, flooring
floordiv8(v) == Big(v.hi \div 8, (v.hi % 8) * 8192 + (v.lo \div 8))

less(a, b) == a.hi < b.hi \/ (a.hi = b.hi /\ a.lo < b.lo)

bigmax(a, b) == IF less(a, b) THEN b ELSE a

\* v - k for 0 <= k < 65536
minus(v, k) ==
    IF v.lo >= k THEN Big(v.hi, v.lo - k) ELSE Big(v.hi - 1, v.lo + 65536 - k)

\* int.to_bytes(4, 'little') raises OverflowError unless 0 <= v < 2^32
fits32(v) == v.hi >= 0 /\ v.hi < 65536

\* the same four bytes written most significant first
to_bytes4_big(v) == <<v.hi \div 256, v.hi % 256, v.lo \div 256, v.lo % 256>>

to_bytes4(v) == <<v.lo % 256, v.lo \div 256, v.hi % 256, v.hi \div 256>>

\* the little-endian 32-bit field at 0-based offset off of a buffer
field32(buf, off) ==
    Big(buf[off + 4] * 256 + buf[off + 3], buf[off + 2] * 256 + buf[off + 1])

\* hashlib.sha1(str(file_size).encode()).digest(): twenty bytes that depend
\* on file_size alone (the digest itself is not computed)
sha1_placeholder(file_size) ==
    [k \in 1..20 |-> (file_size.lo + 7 * file_size.hi + 31 * k) % 256]

\* bytearray(n)
bytearray(n) == [k \in 1..n |-> 0]

\* while len(data) < size: data.extend([0x00])
pad_to(data, size) ==
    IF Len(data) < size THEN data \o bytearray(size - Len(data)) ELSE data

\* The bytes of the stub in the order the code appends them.  The fill loop
\* appends whole 4096-byte chunks and one shorter last chunk; every chunk
\* holds the same fixed pattern, so only their number and the last size are
\* kept.  raised is TRUE when a to_bytes(4, 'little') overflows: the call then
\* ends with OverflowError and returns nothing.
realistic_dex(target_size) ==
    LET file_size       == bigmax(floordiv8(target_size), FromInt(100000))
        map_offset      == minus(file_size, 1024)
        string_ids_size == 100
        string_ids_off  == 112
        type_ids_size   == 50
        type_ids_off    == string_ids_off + (string_ids_size * 4)
        proto_ids_size  == 20
        proto_ids_off   == type_ids_off + (type_ids_size * 4)
        field_ids_size  == 30
        field_ids_off   == proto_ids_off + (proto_ids_size * 12)
        method_ids_size == 40
        method_ids_off  == field_ids_off + (field_ids_size * 8)
        class_defs_size == 5
        class_defs_off  == method_ids_off + (method_ids_size * 8)
        data_size       == minus(file_size, class_defs_off + (class_defs_size * 32))
        data_off        == class_defs_off + (class_defs_size * 32)
        header == pad_to(
               <<100, 101, 120, 10, 48, 51, 53, 0>>        \* b'dex\n035\x00'
            \o to_bytes4(Big(57005, 48879))            \* 0xDEADBEEF
            \o sha1_placeholder(file_size)
            \o to_bytes4(file_size)
            \o to_bytes4(FromInt(112))                 \* 0x70
            \o to_bytes4(Big(4660, 22136))             \* 0x12345678
            \o to_bytes4(FromInt(0))
            \o to_bytes4(FromInt(0))
            \o to_bytes4(map_offset)
            \o to_bytes4(FromInt(string_ids_size)) \o to_bytes4(FromInt(string_ids_off))
            \o to_bytes4(FromInt(type_ids_size))   \o to_bytes4(FromInt(type_ids_off))
            \o to_bytes4(FromInt(proto_ids_size))  \o to_bytes4(FromInt(proto_ids_off))
            \o to_bytes4(FromInt(field_ids_size))  \o to_bytes4(FromInt(field_ids_off))
            \o to_bytes4(FromInt(method_ids_size)) \o to_bytes4(FromInt(method_ids_off))
            \o to_bytes4(FromInt(class_defs_size)) \o to_bytes4(FromInt(class_defs_off))
            \o to_bytes4(data_size)
            \o to_bytes4(FromInt(data_off)), 112)
        string_ids == [k \in 1..(string_ids_size * 4) |->
                          to_bytes4(FromInt(data_off + ((k - 1) \div 4) * 20))[((k - 1) % 4) + 1]]
        type_ids   == [k \in 1..(type_ids_size * 4) |->
                          to_bytes4(FromInt(((k - 1) \div 4) % string_ids_size))[((k - 1) % 4) + 1]]
        dex_data   == header \o string_ids \o type_ids
        remaining  == minus(file_size, Len(dex_data))
    IN  IF ~fits32(file_size)
        THEN [raised |-> TRUE, head |-> <<>>, chunks |-> 0, last_chunk |-> 0]
        ELSE [raised     |-> FALSE,
              head       |-> dex_data,
              chunks     |-> remaining.hi * 16 + (remaining.lo \div 4096),
              last_chunk |-> remaining.lo % 4096]

\* len() of a returned stub
dex_len(dex) ==
    LET low == Len(dex.head) + 4096 * (dex.chunks % 16) + dex.last_chunk
    IN  Big((dex.chunks \div 16) + (low \div 65536), low % 65536)

\* Size hints: below and around zero, around the hint (800000) whose eighth
\* is the 100000-byte floor, and around 2^35, whose eighth is 2^32
DexSpread == 40

DexHints ==
       { FromInt(n) : n \in (0 - DexSpread)..DexSpread }
  \cup { FromInt(800000 + n) : n \in (0 - DexSpread)..DexSpread }
  \cup { Big(524288 + h, l) : h \in {-1, 0}, l \in {0, 1, 65528, 65535} }

CallCreateRealisticDex ==
    /\ blob = NoBlob
    /\ \E target_size \in DexHints :
          blob' = [of |-> "_create_realistic_dex", input |-> target_size,
                   out |-> realistic_dex(target_size)]
    /\ UNCHANGED <<input_apk, output_apk, now, ret, last_op, first_manifest,
                   keystore, tools, pc, attempts, compiled_apk, signed_apk,
                   steps, project, signers>>


\* ---------------------------------------------------------------------------
\* The resource encoder.  Each generator returns its bytes together with the
\* chunks it laid out: the 0-based offset of each chunk header and the number
\* of bytes the code serialized for that chunk.
\* ---------------------------------------------------------------------------
\* int.to_bytes(2, 'little') and int.to_bytes(2, 'big') of a small integer
to_bytes2(n) == <<n % 256, n \div 256>>

to_bytes2_big(n) == <<n \div 256, n % 256>>

\* buf[i:j] = vals: the slice is replaced by vals whatever their number
setslice(buf, i, j, vals) ==
    SubSeq(buf, 1, i) \o vals \o SubSeq(buf, j + 1, Len(buf))

RECURSIVE string_offsets(_, _)
\* for s in strings: data.extend(offset.to_bytes(4, 'little')); offset += len(s)
string_offsets(strings, offset) ==
    IF strings = <<>> THEN <<>>
    ELSE to_bytes4(FromInt(offset))
         \o string_offsets(Tail(strings), offset + Len(Head(strings)))

RECURSIVE string_data(_)
\* for s in strings: data.extend(len(s).to_bytes(2, 'little')); data.extend(s)
string_data(strings) ==
    IF strings = <<>> THEN <<>>
    ELSE to_bytes2(Len(Head(strings))) \o Head(strings)
         \o string_data(Tail(strings))

\* the string pool the code appends: header, offsets, data
string_pool(count, strings) ==
       <<1, 0, 28, 0>>                   \* RES_STRING_POOL_TYPE
    \o <<68, 0, 0, 0>>                   \* "Chunk size"
    \o to_bytes4(FromInt(count))
    \o string_offsets(strings, 0)
    \o string_data(strings)

_create_binary_manifest_default ==
    LET header == <<3, 0, 8, 0>> \o <<0, 0, 0, 0>> \o <<0, 4, 0, 0>>
        \* b'manifest\x00', b'package\x00', b'com.example.modifiedapp\x00',
        \* b'application\x00', b'activity\x00'
        strings ==
            << <<109, 97, 110, 105, 102, 101, 115, 116, 0>>,
            <<112, 97, 99, 107, 97, 103, 101, 0>>,
            <<99, 111, 109, 46, 101, 120, 97, 109, 112, 108, 101, 46, 109, 111,
            100, 105, 102, 105, 101, 100, 97, 112, 112, 0>>,
            <<97, 112, 112, 108, 105, 99, 97, 116, 105, 111, 110, 0>>,
            <<97, 99, 116, 105, 118, 105, 116, 121, 0>> >>
        pool   == string_pool(5, strings)
        data   == pad_to(header \o pool, 2048)
    IN  [bytes  |-> data,
         chunks |-> << [name |-> "xml", off |-> 0, len |-> Len(data)],
                       [name |-> "string pool", off |-> Len(header),
                        len |-> Len(pool)] >>]

\* for i in range(8, 1024, 4): xml_data[i:i+4] = [(i // 4) % 256, 0, 0, 0]
\* Every slice is four bytes wide, lies inside the buffer and gets four
\* values, so the loop rewrites bytes 8..1023 in place.
xml_fill(xml_data) ==
    [k \in 1..Len(xml_data) |->
        IF k - 1 >= 8 /\ k - 1 < 1024
        THEN IF (k - 1) % 4 = 0 THEN ((k - 1) \div 4) % 256 ELSE 0
        ELSE xml_data[k]]

_create_binary_xml ==
    LET data == xml_fill(setslice(setslice(bytearray(1024), 0, 4, <<3, 0, 8, 0>>),
                                  4, 8, <<0, 4, 0, 0>>))
    IN  [bytes  |-> data,
         chunks |-> << [name |-> "xml", off |-> 0, len |-> Len(data)] >>]

_create_resources_arsc ==
    LET header  == <<2, 0, 12, 0>> \o <<0, 16, 0, 0>> \o <<1, 0, 0, 0>>
        \* b'app_name\x00', b'Modified App\x00', b'main_activity\x00'
        resource_strings ==
            << <<97, 112, 112, 95, 110, 97, 109, 101, 0>>,
            <<77, 111, 100, 105, 102, 105, 101, 100, 32, 65, 112, 112, 0>>,
            <<109, 97, 105, 110, 95, 97, 99, 116, 105, 118, 105, 116, 121, 0>> >>
        pool    == string_pool(3, resource_strings)
        \* 'com.example.modifiedapp\x00', each character as to_bytes(2, 'little')
        package_name ==
            <<99, 0, 111, 0, 109, 0, 46, 0, 101, 0, 120, 0, 97, 0, 109, 0, 112, 0,
            108, 0, 101, 0, 46, 0, 109, 0, 111, 0, 100, 0, 105, 0, 102, 0, 105, 0,
            101, 0, 100, 0, 97, 0, 112, 0, 112, 0, 0, 0>>
        package == <<0, 2, 0, 0>> \o <<32, 1, 0, 0>> \o <<127, 0, 0, 0>>
                   \o package_name
        data    == pad_to(header \o pool \o package, 8192)
    IN  [bytes  |-> data,
         chunks |-> << [name |-> "table", off |-> 0, len |-> Len(data)],
                       [name |-> "string pool", off |-> Len(header),
                        len |-> Len(pool)],
                       [name |-> "package", off |-> Len(header) + Len(pool),
                        len |-> Len(package)] >>]


\* ---------------------------------------------------------------------------
\* The fabricated CERT.RSA blocks, byte for byte.  Each generator returns its
\* bytes, the TLV elements it wrote (0-based offset of the tag and the size of
\* the body the code put under it) and, for every bytearray(n) it filled
\* through fixed offsets, the size it was created with and the size it had
\* when it was appended.
\* ---------------------------------------------------------------------------
\* for i in range(lo, hi): buf[i] = f(i), with f(i) = (mul * i + add) % 256
fill_range(buf, lo, hi, mul, add) ==
    [k \in 1..Len(buf) |->
        IF k - 1 >= lo /\ k - 1 < hi THEN (mul * (k - 1) + add) % 256
        ELSE buf[k]]

\* the bytes of _create_enhanced_cert_rsa at clock reading timestamp
enhanced_cert_rsa(timestamp) ==
    LET oid == <<6, 9, 42, 134, 72, 134, 247, 13, 1, 7, 2>>   \* 1.2.840.113549.1.7.2
        s0 == bytearray(3072)
        s1 == setslice(s0, 0, 3, <<2, 1, 1>>)
        s2 == setslice(s1, 3, 15, <<49, 11, 48, 9, 6, 5, 43, 14, 3, 2, 26, 5>>)
        s3 == setslice(s2, 15, 30,
                       <<48, 11, 6, 9, 42, 134, 72, 134, 247, 13, 1, 7, 1, 5, 0>>)
        s4 == fill_range(s3, 50, 1000, 1, timestamp + 127)
        s5 == fill_range(s4, 1500, 1500 + 512, 7, timestamp)
        signed_data == setslice(s5, 2000, 2000 + 10,
                                <<48, 130, 2, 92, 48, 130, 1, 69, 160, 3>>)
        cert_body == oid \o <<160, 130>> \o signed_data
        cert_data == <<48, 130>> \o to_bytes2_big(Len(cert_body)) \o cert_body
    IN  [bytes    |-> cert_data,
         elements |-> << [name |-> "ContentInfo", off |-> 0,
                          body |-> Len(cert_body)],
                         [name |-> "OID", off |-> 4, body |-> 9],
                         [name |-> "context tag", off |-> 4 + 11,
                          body |-> Len(signed_data)] >>,
         buffers  |-> << [name |-> "signed_data", created |-> Len(s0),
                          final |-> Len(signed_data)] >>]

\* the bytes of _create_cert_rsa_advanced at clock reading timestamp
cert_rsa_advanced(timestamp) ==
    LET oid == <<6, 9, 42, 134, 72, 134, 247, 13, 1, 7, 2>>   \* 1.2.840.113549.1.7.2
        x0 == bytearray(1024)
        x1 == setslice(x0, 0, 4, <<48, 130, 3, 255>>)
        x2 == setslice(x1, 4, 8, <<48, 130, 2, 231>>)
        x3 == setslice(x2, 8, 13, <<160, 3, 2, 1, 2>>)
        x4 == setslice(x3, 13, 25, <<2, 9, 0>> \o [k \in 1..9 |-> 1])
        x5 == setslice(x4, 25, 40,
                       <<48, 13, 6, 9, 42, 134, 72, 134, 247, 13, 1, 1, 5, 5, 0>>)
        x509_cert == fill_range(x5, 50, 200, 1, timestamp)
        cert_set  == <<160, 130>> \o to_bytes2_big(Len(x509_cert)) \o x509_cert
        q0 == bytearray(512)
        q1 == setslice(q0, 0, 3, <<48, 130, 1, 255>>)
        q2 == setslice(q1, 4, 7, <<2, 1, 1>>)
        signer_info_seq == fill_range(q2, 20, 256, 7, timestamp)
        signer_info == <<49, 130>> \o to_bytes2_big(Len(signer_info_seq))
                       \o signer_info_seq
        prefix == <<48, 130>>
               \o <<2, 1, 1>>
               \o <<49, 13, 48, 11, 6, 9, 96, 134, 72, 1, 101, 3, 4, 2, 1, 5, 0>>
               \o <<48, 11, 6, 9, 42, 134, 72, 134, 247, 13, 1, 7, 1>>
        signed_data == prefix
               \o to_bytes2_big(Len(cert_set)) \o cert_set
               \o to_bytes2_big(Len(signer_info)) \o signer_info
        cert_body == oid \o <<160, 130>>
               \o to_bytes2_big(Len(signed_data)) \o signed_data
        cert_data == <<48, 130>> \o to_bytes2_big(Len(cert_body)) \o cert_body
        \* 0-based offsets inside cert_data
        signed_off == 4 + 11 + 4
        set_off    == signed_off + Len(prefix) + 2
        signer_off == set_off + Len(cert_set) + 2
    IN  [bytes    |-> cert_data,
         elements |-> << [name |-> "ContentInfo", off |-> 0,
                          body |-> Len(cert_body)],
                         [name |-> "OID", off |-> 4, body |-> 9],
                         [name |-> "context tag", off |-> 4 + 11,
                          body |-> Len(signed_data)],
                         [name |-> "SignedData", off |-> signed_off,
                          body |-> Len(signed_data) - 2],
                         [name |-> "certificates", off |-> set_off,
                          body |-> Len(x509_cert)],
                         [name |-> "SignerInfos", off |-> signer_off,
                          body |-> Len(signer_info_seq)] >>,
         buffers  |-> << [name |-> "x509_cert", created |-> Len(x0),
                          final |-> Len(x509_cert)],
                         [name |-> "signer_info_seq", created |-> Len(q0),
                          final |-> Len(signer_info_seq)] >>]

\* The length a DER header states: short form below 0x80, else 0x81 / 0x82
\* followed by one or two big-endian bytes.  off is the 0-based tag offset.
der_length(bytes, off) ==
    LET first == bytes[off + 2]
    IN  IF first < 128 THEN first
        ELSE IF first = 129 THEN bytes[off + 3]
        ELSE bytes[off + 3] * 256 + bytes[off + 4]

CallCreateBinaryManifest ==
    /\ blob = NoBlob
    /\ blob' = [of |-> "_create_binary_manifest_default", input |-> "none",
                out |-> _create_binary_manifest_default]
    /\ UNCHANGED <<input_apk, output_apk, now, ret, last_op, first_manifest,
                   keystore, tools, pc, attempts, compiled_apk, signed_apk,
                   steps, project, signers>>

CallCreateBinaryXml ==
    /\ blob = NoBlob
    /\ \E xml_path \in {"res/layout/main.xml", "res/values/strings.xml"} :
          blob' = [of |-> "_create_binary_xml", input |-> xml_path,
                   out |-> _create_binary_xml]
    /\ UNCHANGED <<input_apk, output_apk, now, ret, last_op, first_manifest,
                   keystore, tools, pc, attempts, compiled_apk, signed_apk,
                   steps, project, signers>>

CallCreateResourcesArsc ==
    /\ blob = NoBlob
    /\ blob' = [of |-> "_create_resources_arsc", input |-> "none",
                out |-> _create_resources_arsc]
    /\ UNCHANGED <<input_apk, output_apk, now, ret, last_op, first_manifest,
                   keystore, tools, pc, attempts, compiled_apk, signed_apk,
                   steps, project, signers>>

CallCreateEnhancedCertRsa ==
    /\ blob = NoBlob
    /\ blob' = [of |-> "_create_enhanced_cert_rsa", input |-> now,
                out |-> enhanced_cert_rsa(now)]
    /\ UNCHANGED <<input_apk, output_apk, now, ret, last_op, first_manifest,
                   keystore, tools, pc, attempts, compiled_apk, signed_apk,
                   steps, project, signers>>

CallCreateCertRsaAdvanced ==
    /\ blob = NoBlob
    /\ blob' = [of |-> "_create_cert_rsa_advanced", input |-> now,
                out |-> cert_rsa_advanced(now)]
    /\ UNCHANGED <<input_apk, output_apk, now, ret, last_op, first_manifest,
                   keystore, tools, pc, attempts, compiled_apk, signed_apk,
                   steps, project, signers>>

\* Any generator may be called at any clock reading.  A generator reads
\* nothing an earlier call wrote, so one call per behaviour reaches every
\* result.
InitBlobs ==
    /\ input_apk = NoFile
    /\ output_apk = NoFile
    /\ now = 0
    /\ ret = "None"
    /\ last_op = "none"
    /\ first_manifest = [enhanced |-> NoManifest, advanced |-> NoManifest]
    /\ IdleChain
    /\ IdleCompile

NextBlobs ==
    \/ Tick
    \/ CallCreateRealisticDex
    \/ CallCreateBinaryManifest
    \/ CallCreateBinaryXml
    \/ CallCreateResourcesArsc
    \/ CallCreateEnhancedCertRsa
    \/ CallCreateCertRsaAdvanced

SpecBlobs == InitBlobs /\ [][NextBlobs]_vars


\* ---------------------------------------------------------------------------
\* Claims about the binary generators
\* ---------------------------------------------------------------------------
DexCalled == blob.of = "_create_realistic_dex"

\* C15: for every size hint, _create_realistic_dex returns a buffer, the
\* buffer's length equals the 32-bit file_size field at header offset 32, and
\* the header_size field at offset 36 is 0x70.
C15_LengthMatchesFileSize ==
    DexCalled =>
        /\ ~blob.out.raised
        /\ dex_len(blob.out) = field32(blob.out.head, 32)
        /\ field32(blob.out.head, 36) = FromInt(112)

\* the bytes that follow the checksum field: everything from offset 12 on
after_checksum(dex) ==
    [head       |-> SubSeq(dex.head, 13, Len(dex.head)),
     chunks     |-> dex.chunks,
     last_chunk |-> dex.last_chunk]

\* C16: the checksum field at offset 8 of a returned stub is computed from the
\* bytes that follow it, so two stubs whose following bytes differ carry
\* different checksum fields.
C16_ChecksumFollowsContent ==
    (DexCalled /\ ~blob.out.raised) =>
        \A other \in DexHints :
            LET dex == realistic_dex(other)
            IN  (~dex.raised /\ after_checksum(dex) # after_checksum(blob.out))
                    => field32(dex.head, 8) # field32(blob.out.head, 8)


\* the id sections of the header: where the offset and the count fields sit,
\* and the size of one element of the section
DexSections ==
    << [name |-> "string_ids", off |-> 60,  count |-> 56, item |-> 4],
       [name |-> "type_ids",   off |-> 68,  count |-> 64, item |-> 4],
       [name |-> "proto_ids",  off |-> 76,  count |-> 72, item |-> 12],
       [name |-> "field_ids",  off |-> 84,  count |-> 80, item |-> 8],
       [name |-> "method_ids", off |-> 92,  count |-> 88, item |-> 8],
       [name |-> "class_defs", off |-> 100, count |-> 96, item |-> 32] >>

\* where section i of a stub starts, and where the data section starts
section_off(dex, i) ==
    IF i <= Len(DexSections) THEN field32(dex.head, DexSections[i].off)
    ELSE field32(dex.head, 108)

\* C17: in a returned stub the offsets of string_ids, type_ids, proto_ids,
\* field_ids, method_ids, class_defs and data strictly increase, every section
\* ends at or before the start of the next one and inside the buffer, and
\* map_off lies inside the buffer.
C17_SectionsOrderedInside ==
    (DexCalled /\ ~blob.out.raised) =>
        LET dex == blob.out
            n   == Len(DexSections)
        IN  /\ \A i \in 1..n : less(section_off(dex, i), section_off(dex, i + 1))
            /\ \A i \in 1..n :
                  /\ section_off(dex, i).hi = 0
                  /\ field32(dex.head, DexSections[i].count).hi = 0
                  /\ ~less(section_off(dex, i + 1),
                           FromInt(section_off(dex, i).lo
                                   + field32(dex.head, DexSections[i].count).lo
                                     * DexSections[i].item))
            /\ section_off(dex, n + 1).hi = 0
            /\ ~less(minus(dex_len(dex), section_off(dex, n + 1).lo),
                     field32(dex.head, 104))
            /\ less(field32(dex.head, 52), dex_len(dex))

\* a stub larger than the 100000-byte floor was returned
C17_Witness ==
    /\ DexCalled
    /\ ~blob.out.raised
    /\ less(FromInt(100000), field32(blob.out.head, 32))

EncoderCalled ==
    blob.of \in {"_create_binary_manifest_default", "_create_binary_xml",
                 "_create_resources_arsc"}

\* C18: in every output of the resource encoder, the chunk-size field of
\* every chunk (the 32-bit field four bytes into the chunk header) equals the
\* number of bytes serialized for that chunk.
C18_ChunkSizesMatch ==
    EncoderCalled =>
        \A i \in DOMAIN blob.out.chunks :
            field32(blob.out.bytes, blob.out.chunks[i].off + 4)
                = FromInt(blob.out.chunks[i].len)

CertCalled ==
    blob.of \in {"_create_enhanced_cert_rsa", "_create_cert_rsa_advanced"}

\* C20: in both fabricated CERT.RSA blocks the length prefix of every TLV
\* element equals the size of the element's body, and no buffer filled
\* through fixed offsets changes its size.
C20_TlvLengthsMatch ==
    CertCalled =>
        /\ \A i \in DOMAIN blob.out.elements :
              der_length(blob.out.bytes, blob.out.elements[i].off)
                  = blob.out.elements[i].body
        /\ \A i \in DOMAIN blob.out.buffers :
              blob.out.buffers[i].final = blob.out.buffers[i].created


\* C26: CERT.SF of a signed archive has one Name: section for each Name:
\* section of the MANIFEST.MF beside it, with the same entry names in the same
\* order, and no other section.
C26_SignatureFileMirrorsManifest ==
    Signed =>
        SectionNames(read(output_apk, CERT_SF))
            = SectionNames(read(output_apk, MANIFEST_MF))

\* an archive was signed whose manifest has two sections or more
C26_Witness ==
    /\ Signed
    /\ Len(SectionNames(read(output_apk, MANIFEST_MF))) >= 2
    /\ Len(SectionNames(read(output_apk, CERT_SF))) >= 2


\* C28: no step of any signing path changes the file at input_apk, whether
\* the method it belongs to succeeds or fails.
C28_InputUnchanged == [][input_apk' = input_apk]_vars


\* ---------------------------------------------------------------------------
\* The debug keystore under calls that share one temp folder.  The head of
\* _sign_with_jarsigner and _sign_with_apksigner is three separate steps: the
\* os.path.exists check, the keytool run, and the signer run.
\* ---------------------------------------------------------------------------
\* a creation that runs whatever the check found
must_create_always(exists) == TRUE

\* a creation that never runs
must_create_never(exists) == FALSE

\* if not os.path.exists(keystore_path): self._create_debug_keystore(...)
must_create(exists) == ~exists

\* the keystore arguments of the keytool command line
keytool_command ==
    [tool |-> "keytool", keystore |-> "temp_folder/debug.keystore",
     alias |-> "androiddebugkey", storepass |-> "android", keypass |-> "android"]

\* the keystore arguments of the jarsigner / apksigner command line
signer_command(method) ==
    [tool |-> method, keystore |-> "temp_folder/debug.keystore",
     alias |-> "androiddebugkey", storepass |-> "android", keypass |-> "android"]

\* Caller p enters _sign_with_jarsigner or _sign_with_apksigner.  In a
\* sequential series (alone) no other call is under way.
StartSigning(p, alone) ==
    /\ signers[p].pc = "idle"
    /\ alone => \A q \in Callers : signers[q].pc = "idle"
    /\ \E method \in {"jarsigner", "apksigner"} :
          signers' = [signers EXCEPT ![p] =
              [pc |-> "check", method |-> method, found |-> FALSE,
               created |-> FALSE, commands |-> <<>>]]
    /\ UNCHANGED <<input_apk, output_apk, now, ret, last_op, first_manifest,
                   keystore, tools, pc, attempts, compiled_apk, signed_apk,
                   steps, project, blob>>

\* os.path.exists(keystore_path)
CheckKeystore(p) ==
    /\ signers[p].pc = "check"
    /\ signers' = [signers EXCEPT
                      ![p].found = keystore,
                      ![p].pc = IF must_create(keystore) THEN "create" ELSE "sign"]
    /\ UNCHANGED <<input_apk, output_apk, now, ret, last_op, first_manifest,
                   keystore, tools, pc, attempts, compiled_apk, signed_apk,
                   steps, project, blob>>

\* self._create_debug_keystore(keystore_path): keytool runs; its result is
\* not looked at.
CreateKeystore(p) ==
    /\ signers[p].pc = "create"
    /\ \E k \in Outcomes("keytool") :
          keystore' = (keystore \/ _create_debug_keystore(k))
    /\ signers' = [signers EXCEPT
                      ![p].created = TRUE,
                      ![p].commands = Append(@, keytool_command),
                      ![p].pc = "sign"]
    /\ UNCHANGED <<input_apk, output_apk, now, ret, last_op, first_manifest,
                   tools, pc, attempts, compiled_apk, signed_apk,
                   steps, project, blob>>

\* subprocess.run of the signer, and the method's return
RunSigner(p) ==
    /\ signers[p].pc = "sign"
    /\ \E o \in Outcomes(signers[p].method) :
          LET r == IF signers[p].method = "jarsigner"
                   THEN _sign_with_jarsigner(input_apk, output_apk, keystore, o)
                   ELSE _sign_with_apksigner(input_apk, output_apk, keystore, o)
          IN  /\ input_apk' = r.input
              /\ output_apk' = r.output
              /\ ret' = Bool(r.ret)
    /\ last_op' = "_sign_with_" \o signers[p].method
    /\ signers' = [signers EXCEPT
                      ![p].commands = Append(@, signer_command(signers[p].method)),
                      ![p].pc = "idle"]
    /\ UNCHANGED <<now, first_manifest, keystore, tools, pc, attempts,
                   compiled_apk, signed_apk, steps, project, blob>>

InitKeystore ==
    /\ input_apk \in CompileInputs
    /\ output_apk = NoFile
    /\ now = 0
    /\ ret = "None"
    /\ last_op = "none"
    /\ first_manifest = [enhanced |-> NoManifest, advanced |-> NoManifest]
    /\ keystore \in BOOLEAN
    /\ tools \in SUBSET Executables
    /\ pc = "idle"
    /\ attempts = <<>>
    /\ IdleCompile

\* calls one after another
NextSequential ==
    \E p \in Callers :
        \/ StartSigning(p, TRUE)
        \/ CheckKeystore(p)
        \/ CreateKeystore(p)
        \/ RunSigner(p)

SpecSequential == InitKeystore /\ [][NextSequential]_vars

\* calls that may overlap
NextConcurrent ==
    \E p \in Callers :
        \/ StartSigning(p, FALSE)
        \/ CheckKeystore(p)
        \/ CreateKeystore(p)
        \/ RunSigner(p)

SpecConcurrent == InitKeystore /\ [][NextConcurrent]_vars

\* the command lines the callers' current or last calls have run
AllCommands ==
    UNION { { signers[p].commands[i] : i \in 1..Len(signers[p].commands) }
            : p \in Callers }

\* C23: in a sequential series of signing calls sharing one temp folder,
\* keytool is run only by a step that starts with no debug keystore, a
\* keystore that exists stays, and every command line names the same keystore
\* path, alias 'androiddebugkey' and password 'android'.
C23_KeystoreCreatedOnce ==
    [][ /\ \A p \in Callers :
              (signers'[p].created /\ ~signers[p].created) => ~keystore
        /\ keystore => keystore'
        /\ \A c \in AllCommands' :
              /\ c.keystore = "temp_folder/debug.keystore"
              /\ c.alias = "androiddebugkey"
              /\ c.storepass = "android"
              /\ c.keypass = "android" ]_vars

\* a second call has signed with the keystore the first call created
C23_Witness ==
    /\ keystore
    /\ signers[1].created
    /\ signers[1].pc = "idle"
    /\ signers[2].pc = "idle"
    /\ signers[2].found
    /\ Len(signers[2].commands) = 1

\* C24: nothing guards the creation of the keystore: a call invokes keytool
\* exactly when its own check found no keystore, whatever the other call is
\* doing, so two overlapping calls can both pass the check and both invoke
\* creation.
C24_CreationUnguarded ==
    \A p \in Callers :
        signers[p].pc = "sign" => (signers[p].created <=> ~signers[p].found)

\* both calls passed the check and both invoked creation for the same path
C24_Witness ==
    /\ \A p \in Callers :
          /\ signers[p].pc = "sign"
          /\ ~signers[p].found
          /\ signers[p].created
          /\ signers[p].commands = <<keytool_command>>


\* the compile step of the last compile_apk was the fallback compile
FallbackCompiled ==
    Compiled /\ StepResult("apktool b: exit 0") # {TRUE}

\* C29: when the fallback compile returns True, the file it leaves at
\* compiled.apk is the container it wrote, with nothing after the end record,
\* whatever the container's size: the file opens as an archive, structure
\* validation passes and compile_apk returns a path.
C29_CompiledFileIsContainer ==
    (FallbackCompiled /\ StepResult("compile") = {TRUE}) =>
        /\ opens(compiled_apk)
        /\ StepResult("validate") = {TRUE}
        /\ ret # "None"


\* APKEditor.get_compiled_apk_path: signed.apk when a file is there, else
\* compiled.apk when a file is there, else None
get_compiled_apk_path(signed_file, compiled_file) ==
    IF signed_file # NoFile THEN "signed.apk"
    ELSE IF compiled_file # NoFile THEN "compiled.apk"
    ELSE "None"

\* C27: after a compile_apk call has returned, get_compiled_apk_path returns
\* what that call returned: the signed path, the unsigned path or None.
C27_PathOfLatestBuild ==
    Compiled => get_compiled_apk_path(signed_apk, compiled_apk) = ret


\* The files of the decompiled tree the fallback compile packs
PackedFiles(proj) == proj.resources \o proj.assets \o proj.lib

\* The files the fallback compile cannot read: an .xml file under res is
\* never opened
CannotRead(proj) ==
    { i \in 1..Len(PackedFiles(proj)) :
        /\ ~PackedFiles(proj)[i].readable
        /\ ~(i <= Len(proj.resources) /\ is_xml(PackedFiles(proj)[i].filename)) }

\* C21: a fallback compile of a project in which some resource, asset or lib
\* file cannot be read is not aborted: the compile step returns True, the
\* file that cannot be read is left out, every other file is in the archive
\* at compiled.apk, and compile_apk returns a path.
C21_UnreadableFileSkipped ==
    (FallbackCompiled /\ project.exists /\ CannotRead(project) # {}) =>
        /\ StepResult("compile") = {TRUE}
        /\ \A i \in 1..Len(PackedFiles(project)) :
              PackedFiles(project)[i].filename \in Names(compiled_apk)
                 <=> i \notin CannotRead(project)
        /\ ret # "None"

\* The part of C21 that stands when the container is not padded
C21_SkippedWhenNotPadded ==
    (FallbackCompiled /\ project.exists /\ CannotRead(project) # {}
        /\ opens(compiled_apk)) =>
        /\ StepResult("compile") = {TRUE}
        /\ \A i \in 1..Len(PackedFiles(project)) :
              PackedFiles(project)[i].filename \in Names(compiled_apk)
                 <=> i \notin CannotRead(project)
        /\ ret # "None"

C21_NotPaddedWitness ==
    FallbackCompiled /\ CannotRead(project) # {} /\ opens(compiled_apk)


-----------------------------------------------------------------------------
\* APKEditor.save_image_resource, save_string_resource, save_layout_resource

\* The file list after a write to the file called name: the file is
\* replaced when it is there, added when it is not
put(files, file) ==
    IF \E i \in 1..Len(files) : files[i].filename = file.filename
    THEN [i \in 1..Len(files) |->
             IF files[i].filename = file.filename THEN file ELSE files[i]]
    ELSE Append(files, file)

\* APKEditor.save_string_resource: os.makedirs creates the directories on the
\* way, then the content is written over the file at resource_path
save_string_resource(proj, resource_path, content) ==
    [ret |-> TRUE,
     project |-> [proj EXCEPT !.exists = TRUE,
                              !.resources = put(@, ResourceFile(resource_path,
                                                     content, Len(content)))]]

\* APKEditor.save_layout_resource: the same steps
save_layout_resource(proj, resource_path, content) ==
    [ret |-> TRUE,
     project |-> [proj EXCEPT !.exists = TRUE,
                              !.resources = put(@, ResourceFile(resource_path,
                                                     content, Len(content)))]]

\* APKEditor.save_image_resource: file.save writes the uploaded image
save_image_resource(proj, resource_path, file) ==
    [ret |-> TRUE,
     project |-> [proj EXCEPT !.exists = TRUE,
                              !.resources = put(@, ResourceFile(resource_path,
                                                     file.data, file.size))]]

STRINGS_PATH == <<"res", "/", "values/strings.xml">>

LAYOUT_PATH == <<"res", "/", "layout/main.xml">>

LayoutContents == {<<"edited layout">>}

Uploads == {BIG_PNG}

Saved(r, op) ==
    /\ ret' = Bool(r.ret)
    /\ project' = r.project
    /\ last_op' = op
    /\ UNCHANGED <<input_apk, output_apk, now, first_manifest, keystore, tools,
                   pc, attempts, compiled_apk, signed_apk, steps, blob, signers>>

SaveStringResource ==
    /\ pc = "idle"
    /\ \E content \in XmlContents :
          Saved(save_string_resource(project, STRINGS_PATH, content),
                "save_string_resource")

SaveLayoutResource ==
    /\ pc = "idle"
    /\ \E content \in LayoutContents :
          Saved(save_layout_resource(project, LAYOUT_PATH, content),
                "save_layout_resource")

SaveImageResource ==
    /\ pc = "idle"
    /\ \E file \in Uploads :
          Saved(save_image_resource(project, file.filename, file),
                "save_image_resource")

EditProjects ==
    { NoProject, Project(0, <<BIG_PNG>>) }

InitEdit ==
    /\ input_apk = NoFile
    /\ output_apk = NoFile
    /\ now = 0
    /\ ret = "None"
    /\ last_op = "none"
    /\ first_manifest = [enhanced |-> NoManifest, advanced |-> NoManifest]
    /\ keystore = FALSE
    /\ tools = {}
    /\ pc = "idle"
    /\ attempts = <<>>
    /\ compiled_apk = NoFile
    /\ signed_apk = NoFile
    /\ steps = <<>>
    /\ project \in EditProjects
    /\ blob = NoBlob
    /\ signers = NoSigners

NextEdit ==
    SaveStringResource \/ SaveLayoutResource \/ SaveImageResource \/ CallCompileApk

SpecEdit == InitEdit /\ [][NextEdit]_vars

\* The .xml files under res of the project that was just compiled
XmlFiles ==
    { i \in 1..Len(project.resources) : is_xml(project.resources[i].filename) }

\* The entry the fallback compile writes for the file at resource_path when
\* the file holds content
encoded_entry(resource_path, content) ==
    read(_simulate_compile(
             save_string_resource(project, resource_path, content).project,
             NoFile).output,
         resource_path)

\* C25: the entry the fallback compile writes for an .xml resource is
\* determined by the resource's text and differs for different texts: in the
\* archive a fallback compile has just written, the entry of each .xml file
\* differs from the entry any other text at that path would have given.
C25_EncodingFollowsContent ==
    (FallbackCompiled /\ opens(compiled_apk)) =>
        \A i \in XmlFiles :
           \A content \in XmlContents \cup LayoutContents :
              content # project.resources[i].data =>
                 encoded_entry(project.resources[i].filename, content)
                    # read(compiled_apk, project.resources[i].filename)


-----------------------------------------------------------------------------
\* The stored status of a project

\* FileManager.update_project_metadata: False when the project holds no
\* metadata.json; otherwise the updates (here a status) are merged into the
\* stored metadata and updated_at is set to the clock reading.  No method of
\* APKEditor or APKTool calls it.
update_project_metadata(proj, updates, t) ==
    IF proj.exists /\ proj.metadata # <<>>
    THEN [ret |-> TRUE,
          project |-> [proj EXCEPT !.metadata =
              <<[status |-> updates.status,
                 created_at |-> proj.metadata[1].created_at,
                 updated_at |-> isoformat(t)]>>]]
    ELSE [ret |-> FALSE, project |-> proj]

LifecycleInputs ==
    { Zip(<<e>>) : e \in { x \in EntryPool : x.filename = <<"a.txt">> } }

InitLifecycle ==
    /\ input_apk \in LifecycleInputs
    /\ output_apk = NoFile
    /\ now = 0
    /\ ret = "None"
    /\ last_op = "none"
    /\ first_manifest = [enhanced |-> NoManifest, advanced |-> NoManifest]
    /\ keystore = FALSE
    /\ tools = BuildTools
    /\ pc = "idle"
    /\ attempts = <<>>
    /\ IdleCompile

NextLifecycle ==
    \/ CallDecompileApk
    \/ SaveStringResource
    \/ SaveLayoutResource
    \/ SaveImageResource
    \/ CallCompileApk

SpecLifecycle == InitLifecycle /\ [][NextLifecycle]_vars

\* The status stored in the project's metadata.json
StoredStatus == project.metadata[1].status

\* C22: the status stored for a project is 'decompiled' when decompile_apk
\* has returned True, 'edited' when a save method has returned True, 'signed'
\* when compile_apk has returned the signed path and 'compiled' when it has
\* returned the unsigned path.
C22_StatusLifecycle ==
    (pc = "idle" /\ project.exists /\ project.metadata # <<>>) =>
        /\ (last_op = "decompile_apk" /\ ret = "True")
              => StoredStatus = "decompiled"
        /\ (last_op \in {"save_string_resource", "save_layout_resource",
                         "save_image_resource"} /\ ret = "True")
              => StoredStatus = "edited"
        /\ (last_op = "compile_apk" /\ ret = "signed.apk")
              => StoredStatus = "signed"
        /\ (last_op = "compile_apk" /\ ret = "compiled.apk")
              => StoredStatus = "compiled"


-----------------------------------------------------------------------------
\* FileManager.list_projects over a folder of several projects

MaxProjects == 3

Directory(metadata) == [NoProject EXCEPT !.exists = TRUE, !.metadata = metadata]

\* What a projects folder can hold: projects created at different clock
\* readings, a project whose metadata.json does not parse, a directory
\* without metadata.json, and an entry that is not a directory
FolderEntries ==
    { Directory(<<Metadata(t)>>) : t \in 0..2 }
        \cup { Directory(<<NOT_JSON>>), Directory(<<>>), NoProject }

Folders == Arrangements(FolderEntries, MaxProjects)

CallListProjects ==
    /\ blob = NoBlob
    /\ \E folder \in Folders :
          blob' = [of |-> "list_projects", input |-> folder,
                   out |-> list_projects(folder)]
    /\ UNCHANGED <<input_apk, output_apk, now, ret, last_op, first_manifest,
                   keystore, tools, pc, attempts, compiled_apk, signed_apk,
                   steps, project, signers>>

NextProjects == CallListProjects

SpecProjects == InitBlobs /\ [][NextProjects]_vars

Listed == blob.of = "list_projects"

\* The metadata of the folder's projects whose metadata.json parses
Parseable(folder) ==
    { folder[i].metadata[1] :
        i \in { k \in 1..Len(folder) :
                  /\ folder[k].exists
                  /\ folder[k].metadata # <<>>
                  /\ parses(folder[k].metadata[1]) } }

\* C30: list_projects returns the metadata of every project directory whose
\* metadata.json parses, newest created_at first, also when the metadata.json
\* of another project in the folder does not parse.
C30_ListsEveryParseableProject ==
    Listed =>
        /\ { blob.out[i] : i \in 1..Len(blob.out) } = Parseable(blob.input)
        /\ \A i, k \in 1..Len(blob.out) :
              i < k => created_at_key(blob.out[i]) >= created_at_key(blob.out[k])

\* The part of C30 that stands when every metadata.json in the folder parses
C30_ListsAllWhenAllParse ==
    (Listed /\ \A i \in 1..Len(blob.input) :
                  blob.input[i].metadata # <<>> => parses(blob.input[i].metadata[1])) =>
        /\ { blob.out[i] : i \in 1..Len(blob.out) } = Parseable(blob.input)
        /\ \A i, k \in 1..Len(blob.out) :
              i < k => created_at_key(blob.out[i]) >= created_at_key(blob.out[k])

====
